---- MODULE Spec2Model ----
(***************************************************************************)
(* AG-UI spike: the client stream consumer (frontend/src/hooks/useAGUI.ts) *)
(* and the server event emitter / keyword router                           *)
(* (adapters/mastra/server.ts).                                            *)
(*                                                                         *)
(* Text is a sequence of characters, a character is a record [c |-> ...].  *)
(* Optional values (null / undefined in the source) are sequences of       *)
(* length 0 or 1.                                                          *)
(***************************************************************************)
EXTENDS Integers, Sequences, FiniteSets, TLC

VARIABLES
    messages,            \* useState<AGUIMessage[]>
    isConnected,         \* useState(true)
    isStreaming,         \* useState(false)
    activeTool,          \* useState<ToolCall | null>
    error,               \* useState<string | null>
    metrics,             \* useState<AGUIMetrics>
    isImprovingRecipe,   \* useState(false)
    abortControllerRef,  \* useRef<AbortController | null>: the request it belongs to
    startTimeRef,        \* useRef<number | null>
    firstTokenTimeRef,   \* useRef<number | null>
    tokenCountRef,       \* useRef(0)
    timers,              \* pending setTimeout(() => setActiveTool(null), 1000): due times
    uiCalls,             \* handlers invoked through uiActionsRef, in order
    uiActionsRef,        \* useRef(uiActions): the handlers the application has passed
    now,                 \* performance.now(), in milliseconds
    reqs,                \* the async invocations of sendMessage / sendRecipeImproveRequest
    lastCall,            \* the last call of an entry point and what it did
    srv,                 \* one run of the server's POST /api/copilotkit handler
    wire,                \* one event on its way from sendSSE to processSSELine
    component            \* the component that uses the hook: mounted, unmounted, crashed

hookVars == <<messages, isConnected, isStreaming, activeTool, error, metrics,
              isImprovingRecipe, abortControllerRef, startTimeRef,
              firstTokenTimeRef, tokenCountRef, timers, uiCalls, component>>
vars == <<messages, isConnected, isStreaming, activeTool, error, metrics,
          isImprovingRecipe, abortControllerRef, startTimeRef,
          firstTokenTimeRef, tokenCountRef, timers, uiCalls, now, reqs,
          lastCall, srv, wire, uiActionsRef, component>>

-----------------------------------------------------------------------------
(* Bounds of the model *)

\* requests one session issues
MaxReq == 2
\* ticks of the clock
MaxClock == 2
\* words of an LLM answer
MaxWords == 2
\* characters of a string field of an event on the wire
MaxText == 2

\* the delay of setTimeout(() => setActiveTool(null), 1000)
GracePeriod == 1000
\* the clock is observed twice per grace period
TickMs == GracePeriod \div 2

-----------------------------------------------------------------------------
(* Text *)

None == <<>>
Some(x) == <<x>>
IsSome(o) == Len(o) > 0
Val(o) == o[1]

Ch(x) == [c |-> x]
\* a JSON string literal, quotes and escapes included, as one token
JStr(text) == [str |-> text]
NL == Ch("\n")
SP == Ch(" ")
COLON == Ch(":")
LBRACE == Ch("{")
RBRACE == Ch("}")
COMMA == Ch(",")

\* Array.prototype / String.prototype helpers, 0-based as in the source
Substring(s, from, to) ==
    LET a == IF from < 0 THEN 0 ELSE IF from > Len(s) THEN Len(s) ELSE from
        b == IF to < 0 THEN 0 ELSE IF to > Len(s) THEN Len(s) ELSE to
        lo == IF a <= b THEN a ELSE b
        hi == IF a <= b THEN b ELSE a
    IN  SubSeq(s, lo + 1, hi)
SubstringFrom(s, from) == Substring(s, from, Len(s))
StartsWith(s, p) == Len(s) >= Len(p) /\ SubSeq(s, 1, Len(p)) = p
IndexOf(s, ch) ==
    IF \E i \in 1..Len(s) : s[i] = ch
    THEN (CHOOSE i \in 1..Len(s) : s[i] = ch /\ \A j \in 1..(i - 1) : s[j] # ch) - 1
    ELSE 0 - 1
Includes(s, p) ==
    \E i \in 0..(Len(s) - Len(p)) : SubSeq(s, i + 1, i + Len(p)) = p
\* String.prototype.indexOf(p) for a string p
IndexOfSeq(s, p) ==
    IF Includes(s, p)
    THEN CHOOSE i \in 0..(Len(s) - Len(p)) :
            /\ SubSeq(s, i + 1, i + Len(p)) = p
            /\ \A j \in 0..(i - 1) : SubSeq(s, j + 1, j + Len(p)) # p
    ELSE 0 - 1

IsWhitespace(ch) == ch \in {SP, NL, Ch("\r"), Ch("\t")}
\* String.prototype.trim() is truthy
TrimNonEmpty(s) == \E i \in 1..Len(s) : ~IsWhitespace(s[i])

RECURSIVE Flatten(_)
Flatten(ss) == IF ss = <<>> THEN <<>> ELSE Head(ss) \o Flatten(Tail(ss))

\* String.prototype.split(sep) for a one-character sep: always at least one piece
RECURSIVE SplitFrom(_, _, _)
SplitFrom(s, sep, cur) ==
    IF s = <<>> THEN <<cur>>
    ELSE IF Head(s) = sep THEN <<cur>> \o SplitFrom(Tail(s), sep, <<>>)
    ELSE SplitFrom(Tail(s), sep, Append(cur, Head(s)))
Split(s, sep) == SplitFrom(s, sep, <<>>)

-----------------------------------------------------------------------------
(* JSON.parse of the small language  { k : v , k : v ... }  and of scalars. *)
(* A parsed object holds the set of its <<key, value>> pairs (a later pair  *)
(* of the same key replaces the earlier one); a string literal is the one  *)
(* token [str |-> text].                                                    *)

IsPunct(ch) == ch \in {COLON, LBRACE, RBRACE, COMMA, NL, SP}

RECURSIVE ParsePairs(_, _)
ParsePairs(s, acc) ==
    IF Len(s) >= 3 /\ ~IsPunct(s[1]) /\ s[2] = COLON /\ ~IsPunct(s[3])
    THEN LET acc2 == {p \in acc : p[1] # s[1]} \cup {<<s[1], s[3]>>}
         IN  IF Len(s) = 3 THEN Some([kind |-> "object", pairs |-> acc2])
             ELSE IF s[4] = COMMA THEN ParsePairs(SubSeq(s, 5, Len(s)), acc2)
             ELSE None
    ELSE None

\* None when JSON.parse throws
JsonParse(s) ==
    IF Len(s) = 1 /\ ~IsPunct(s[1]) THEN Some([kind |-> "scalar", tok |-> s[1]])
    ELSE IF Len(s) >= 2 /\ s[1] = LBRACE /\ s[Len(s)] = RBRACE
    THEN IF Len(s) = 2 THEN Some([kind |-> "object", pairs |-> {}])
         ELSE ParsePairs(SubSeq(s, 2, Len(s) - 1), {})
    ELSE None

-----------------------------------------------------------------------------
(* Event Encoder: sendSSE, and the client's decoding of one line *)

DataPrefix == <<Ch("data:"), SP>>

\* JSON.stringify of an event object: one token between braces, never a newline
Stringify(event) == <<LBRACE, [json |-> event], RBRACE>>

\* JSON.parse(line.slice(6)); None when it throws
ParseEvent(payload) ==
    IF /\ Len(payload) = 3
       /\ payload[1] = LBRACE
       /\ "json" \in DOMAIN payload[2]
       /\ payload[3] = RBRACE
    THEN Some(payload[2].json)
    ELSE None

\* { type: eventType, timestamp: new Date().toISOString(), ...data }
SseEvent(eventType, data) == data @@ [type |-> eventType, timestamp |-> "iso"]

\* res.write(`data: ${JSON.stringify(event)}\n\n`)
sendSSE(eventType, data) ==
    DataPrefix \o Stringify(SseEvent(eventType, data)) \o <<NL, NL>>

\* data.<field>, undefined read as the default
Field(data, f, default) == IF f \in DOMAIN data THEN data[f] ELSE default

-----------------------------------------------------------------------------
(* Event Encoder, character by character: JSON.stringify of an event whose  *)
(* fields are strings, flat objects of strings, or undefined, and the       *)
(* JSON.parse of the client.  A string value is [text |-> characters], an   *)
(* object value [fields |-> record], a parsed object [members |-> pairs].   *)

QUOTE == Ch("\"")
BSLASH == Ch("\\")
Text(s) == [text |-> s]
Obj(r) == [fields |-> r]
Undefined == [undefined |-> TRUE]

\* faulty variant: the characters of a string are written as they are
EscapeNothing(ch) == <<ch>>

\* JSON.stringify of one character of a string
Escape(ch) ==
    IF ch = QUOTE THEN <<BSLASH, QUOTE>>
    ELSE IF ch = BSLASH THEN <<BSLASH, BSLASH>>
    ELSE IF ch = NL THEN <<BSLASH, Ch("n")>>
    ELSE <<ch>>
RECURSIVE EscapeAll(_)
EscapeAll(s) == IF s = <<>> THEN <<>> ELSE Escape(Head(s)) \o EscapeAll(Tail(s))
JsonString(s) == <<QUOTE>> \o EscapeAll(s) \o <<QUOTE>>

\* the keys of an object in the order JSON.stringify writes them; a key whose
\* value is undefined is left out
FieldOrder ==
    <<"type", "timestamp", "runId", "threadId", "messageId", "role", "delta", "toolCallId",
      "toolName", "message", "action", "args", "result", "state", "theme", "title">>
Keys(r) == SelectSeq(FieldOrder, LAMBDA f : f \in DOMAIN r /\ r[f] # Undefined)

RECURSIVE JsonStringify(_)
RECURSIVE JsonMembers(_, _)
JsonStringify(v) ==
    IF "text" \in DOMAIN v THEN JsonString(v.text)
    ELSE <<LBRACE>> \o JsonMembers(v.fields, Keys(v.fields)) \o <<RBRACE>>
JsonMembers(r, ks) ==
    IF ks = <<>> THEN <<>>
    ELSE JsonString(<<Ch(Head(ks))>>) \o <<COLON>> \o JsonStringify(r[Head(ks)])
            \o (IF Len(ks) > 1 THEN <<COMMA>> ELSE <<>>) \o JsonMembers(r, Tail(ks))

\* sendSSE(res, eventType, data), character by character
WriteEvent(eventType, data) ==
    DataPrefix
        \o JsonStringify(Obj(data @@ [type |-> Text(<<Ch(eventType)>>),
                                      timestamp |-> Text(<<Ch("iso")>>)]))
        \o <<NL, NL>>

\* JSON.parse: a step of the parser gives the value and the position behind it
ParseFails == [ok |-> FALSE]
Parsed(value, next) == [ok |-> TRUE, value |-> value, next |-> next]

\* the characters of a string literal, from behind its opening quote
RECURSIVE ParseChars(_, _, _)
ParseChars(s, i, acc) ==
    IF i > Len(s) THEN ParseFails
    ELSE IF s[i] = QUOTE THEN Parsed(Text(acc), i + 1)
    ELSE IF s[i] = NL THEN ParseFails
    ELSE IF s[i] = BSLASH
    THEN IF i + 1 > Len(s) THEN ParseFails
         ELSE IF s[i + 1] \in {QUOTE, BSLASH} THEN ParseChars(s, i + 2, Append(acc, s[i + 1]))
         ELSE IF s[i + 1] = Ch("n") THEN ParseChars(s, i + 2, Append(acc, NL))
         ELSE ParseFails
    ELSE ParseChars(s, i + 1, Append(acc, s[i]))

RECURSIVE ParseValue(_, _)
RECURSIVE ParseMembers(_, _, _)
ParseValue(s, i) ==
    IF i > Len(s) THEN ParseFails
    ELSE IF s[i] = QUOTE THEN ParseChars(s, i + 1, <<>>)
    ELSE IF s[i] = LBRACE
    THEN IF i + 1 <= Len(s) /\ s[i + 1] = RBRACE THEN Parsed([members |-> {}], i + 2)
         ELSE ParseMembers(s, i + 1, {})
    ELSE ParseFails
\* "key":value pairs up to the closing brace; a later pair of a key replaces
\* the earlier one
ParseMembers(s, i, acc) ==
    LET k == IF i <= Len(s) /\ s[i] = QUOTE THEN ParseChars(s, i + 1, <<>>) ELSE ParseFails
    IN  IF ~k.ok THEN ParseFails
        ELSE IF k.next > Len(s) \/ s[k.next] # COLON THEN ParseFails
        ELSE LET v == ParseValue(s, k.next + 1)
             IN  IF ~v.ok THEN ParseFails
                 ELSE IF v.next > Len(s) THEN ParseFails
                 ELSE LET acc2 == {q \in acc : q[1] # k.value.text}
                                      \cup {<<k.value.text, v.value>>}
                      IN  IF s[v.next] = COMMA THEN ParseMembers(s, v.next + 1, acc2)
                          ELSE IF s[v.next] = RBRACE
                          THEN Parsed([members |-> acc2], v.next + 1)
                          ELSE ParseFails

\* JSON.parse(text); None when it throws
JsonParseText(s) ==
    LET v == ParseValue(s, 1)
    IN  IF v.ok THEN (IF v.next = Len(s) + 1 THEN Some(v.value) ELSE None) ELSE None

\* data.<name> of a parsed object, undefined when the key is absent
Member(data, name) ==
    IF \E q \in data.members : q[1] = <<Ch(name)>>
    THEN (CHOOSE q \in data.members : q[1] = <<Ch(name)>>)[2]
    ELSE Undefined

\* the client on the text of one write: the lines the read loop dispatches, each
\* decoded as processSSELine decodes it (lines 131-134); None for a line it skips
DecodeLine(line) ==
    IF StartsWith(line, DataPrefix) THEN JsonParseText(SubstringFrom(line, Len(DataPrefix)))
    ELSE None
DecodeLines(lines) == [i \in 1..Len(lines) |-> DecodeLine(lines[i])]
DecodeWrite(text) == DecodeLines(SelectSeq(Split(text, NL), TrimNonEmpty))

-----------------------------------------------------------------------------
(* Server: feature implementations of server.ts *)

W(x) == <<Ch(x)>>
ComponentPrefix == <<Ch("COMPONENT"), COLON>>

\* String.prototype.toLowerCase on the words the model uses
LowerCh(ch) ==
    IF ch = Ch("Hello") THEN Ch("hello")
    ELSE IF ch = Ch("Weather") THEN Ch("weather")
    ELSE IF ch = Ch("How") THEN Ch("how")
    ELSE IF ch = Ch("Mumbai") THEN Ch("mumbai")
    ELSE IF ch = Ch("EXECUTE_PLAN") THEN Ch("execute_plan")
    ELSE IF ch = Ch("IMPROVE_RECIPE") THEN Ch("improve_recipe")
    ELSE ch
ToLowerCase(s) == [i \in 1..Len(s) |-> LowerCh(s[i])]

\* String.prototype.trim()
RECURSIVE TrimStart(_)
TrimStart(s) == IF s # <<>> /\ IsWhitespace(Head(s)) THEN TrimStart(Tail(s)) ELSE s
RECURSIVE TrimEnd(_)
TrimEnd(s) ==
    IF s # <<>> /\ IsWhitespace(s[Len(s)]) THEN TrimEnd(SubSeq(s, 1, Len(s) - 1)) ELSE s
Trim(s) == TrimEnd(TrimStart(s))

\* location.charAt(0).toUpperCase() + location.slice(1)
Capitalize(s) ==
    IF s = <<>> THEN s
    ELSE <<IF s[1] = Ch("mumbai") THEN Ch("Mumbai") ELSE s[1]>> \o Tail(s)

\* `COMPONENT:WeatherCard:${JSON.stringify(componentData)}`; the location is one
\* JSON string, whatever it contains
createWeatherComponent(location) ==
    ComponentPrefix \o W("WeatherCard") \o <<COLON>>
        \o <<LBRACE, Ch("location"), COLON, JStr(Capitalize(location))>>
        \o <<COMMA, Ch("temperature"), COLON, Ch("number"), RBRACE>>

\* `COMPONENT:TaskChecklist:${JSON.stringify({ title, tasks })}`
createPlanComponent(topic) ==
    LET topicLower == ToLowerCase(topic)
        title == IF \E w \in {"software", "app", "web", "mobile"} : Includes(topicLower, W(w))
                 THEN "Software Development Plan"
                 ELSE IF \E w \in {"product", "launch", "market"} : Includes(topicLower, W(w))
                 THEN "Product Launch Plan"
                 ELSE "Plan for: topic"
    IN  ComponentPrefix \o W("TaskChecklist") \o <<COLON>>
            \o <<LBRACE, Ch("title"), COLON, Ch(title)>>
            \o <<COMMA, Ch("tasks"), COLON, Ch("tasks"), RBRACE>>

\* JSON.parse of a steps array: [ ] or [ step ]; None when it throws
ParseSteps(s) ==
    IF s = <<Ch("["), Ch("]")>> THEN Some(<<>>)
    ELSE IF Len(s) = 3 /\ s[1] = Ch("[") /\ s[3] = Ch("]") /\ ~IsPunct(s[2])
    THEN Some(<<s[2]>>)
    ELSE None

\* the markdown report of executePlan
executePlan(planTitle, steps) ==
    W("Executing") \o planTitle \o steps \o W("All steps are now in progress")

\* words joined by single spaces
RECURSIVE Phrase(_)
Phrase(ws) ==
    IF Len(ws) = 0 THEN <<>>
    ELSE IF Len(ws) = 1 THEN W(ws[1])
    ELSE W(ws[1]) \o <<SP>> \o Phrase(Tail(ws))

\* keywords.some(kw => text.includes(kw))
SomeIncluded(text, keywords) == \E kw \in keywords : Includes(text, kw)

\* improveRecipe(recipeState): None when it throws (ingredients that are no array)
improveRecipe(recipeState) ==
    IF recipeState.kind = "object"
    THEN IF <<Ch("ingredients"), Ch("bad")>> \in recipeState.pairs
         THEN None
         ELSE Some([kind |-> "object",
                    pairs |-> {q \in recipeState.pairs :
                                  q[1] \notin {Ch("ingredients"), Ch("instructions")}}
                              \cup {<<Ch("ingredients"), Ch("improved")>>,
                                    <<Ch("instructions"), Ch("base")>>}])
    ELSE Some([kind |-> "object",
               pairs |-> {<<Ch("ingredients"), Ch("improved")>>,
                          <<Ch("instructions"), Ch("base")>>}])

ImprovePrefix == <<Ch("IMPROVE_RECIPE"), COLON>>
ExecutePrefix == <<Ch("EXECUTE_PLAN"), COLON>>
planningKeywords ==
    {Phrase(<<"plan">>) \o <<SP>>, Phrase(<<"plan", "a">>) \o <<SP>>,
     Phrase(<<"create", "a", "plan">>), Phrase(<<"steps", "to">>),
     Phrase(<<"checklist">>), Phrase(<<"how", "to">>), Phrase(<<"steps", "for">>)}
planningPrefixes ==
    <<Phrase(<<"plan">>) \o <<SP>>, Phrase(<<"plan", "a">>) \o <<SP>>,
      Phrase(<<"create", "a", "plan", "for">>) \o <<SP>>,
      Phrase(<<"steps", "to">>) \o <<SP>>, Phrase(<<"checklist", "for">>) \o <<SP>>>>
weatherKeywords ==
    {Phrase(<<"weather", "in">>), Phrase(<<"weather", "like", "in">>),
     Phrase(<<"weather", "for">>), Phrase(<<"temperature", "in">>)}
timeKeywords ==
    {Phrase(<<"what", "time">>), Phrase(<<"current", "time">>),
     Phrase(<<"time", "is", "it">>), Phrase(<<"time", "now">>)}
themeKeywords ==
    {Phrase(<<"light", "theme">>), Phrase(<<"light", "mode">>),
     Phrase(<<"dark", "theme">>), Phrase(<<"dark", "mode">>)}
resetKeywords ==
    {Phrase(<<"reset", "ui">>), Phrase(<<"reset", "the", "ui">>),
     Phrase(<<"default", "ui">>), Phrase(<<"restore", "ui">>)}
bgKeywords ==
    {Phrase(<<"background", "to">>), Phrase(<<"background", "color">>),
     Phrase(<<"background", "colour">>), Phrase(<<"change", "background">>),
     Phrase(<<"make", "background">>)}
greetings ==
    {Phrase(<<"hello">>), Phrase(<<"hi">>), Phrase(<<"hey">>),
     Phrase(<<"hi", "there">>), Phrase(<<"hello", "there">>)}

\* the topic of a planning request: the input without the first prefix it starts with
PlanTopic(userInput, userLower) ==
    LET hits == {i \in 1..Len(planningPrefixes) : StartsWith(userLower, planningPrefixes[i])}
    IN  IF hits = {} THEN userInput
        ELSE LET first == CHOOSE i \in hits : \A j \in hits : i <= j
             IN  SubstringFrom(userInput, Len(planningPrefixes[first]))

\* userInput.match(/(?:weather in|...)\s+(.+?)(?:\?|$)/i): the text after the
\* leftmost keyword that is followed by white space and one more character, up to
\* the first question mark after that character; 'Unknown' without a match
KeywordAt(userLower, i, kw) ==
    /\ Substring(userLower, i, i + Len(kw)) = kw
    /\ i + Len(kw) + 2 <= Len(userLower)
    /\ IsWhitespace(userLower[i + Len(kw) + 1])
    /\ Len(TrimStart(SubstringFrom(userLower, i + Len(kw)))) > 0
\* (.+?)(?:\?|$) on the text after the white space, q the index of the first
\* question mark behind its first character
Captured(rest, q) == IF q = 0 - 1 THEN rest ELSE Substring(rest, 0, q + 1)
LocationAfter(rest) == Trim(Captured(rest, IndexOf(Tail(rest), Ch("?"))))
LocationAt(userInput, userLower, i) ==
    LocationAfter(TrimStart(SubstringFrom(userInput,
        i + Len(CHOOSE kw \in weatherKeywords : KeywordAt(userLower, i, kw)))))
LeftmostMatch(starts, userInput, userLower) ==
    IF starts = {} THEN W("Unknown")
    ELSE LocationAt(userInput, userLower, CHOOSE x \in starts : \A y \in starts : x <= y)
WeatherLocation(userInput, userLower) ==
    LeftmostMatch({i \in 0..Len(userLower) :
                      \E kw \in weatherKeywords : KeywordAt(userLower, i, kw)},
                  userInput, userLower)

\* the characters after the last space
RECURSIVE LastWord(_)
LastWord(s) ==
    IF s = <<>> \/ s[Len(s)] = SP THEN <<>>
    ELSE Append(LastWord(SubSeq(s, 1, Len(s) - 1)), s[Len(s)])

\* the colour of a background request: /\bto\s+(\w+)\s*$/i, else the last word
\* without ? ! . , else 'blue'
BgColor(userInput) ==
    LET t == TrimEnd(userInput)
        n == Len(t)
        last == SelectSeq(LastWord(userInput), LAMBDA ch : ch \notin {Ch("?"), Ch("!"), Ch(".")})
    IN  IF n >= 3 /\ LowerCh(t[n - 2]) = Ch("to") /\ IsWhitespace(t[n - 1])
             /\ ~IsPunct(t[n]) /\ t[n] \notin {Ch("?"), Ch("!"), Ch(".")}
        THEN <<t[n]>>
        ELSE IF last = <<>> THEN W("blue") ELSE last

\* The keyword router of POST /api/copilotkit: the frames it writes before
\* TEXT_MESSAGE_START, responseText and useKeywordResponse
Route(userInput) ==
    LET userLower == ToLowerCase(userInput)
        kw(name, pre, text) ==
            [route |-> name, pre |-> pre, responseText |-> text, useKeywordResponse |-> TRUE]
        jsonStart == IndexOfSeq(userInput, <<COLON, Ch("[")>>)
    IN  IF StartsWith(userInput, ImprovePrefix)
        THEN LET recipeState == JsonParse(SubstringFrom(userInput, Len(ImprovePrefix)))
                 improved == IF IsSome(recipeState) THEN improveRecipe(Val(recipeState)) ELSE None
             IN  IF IsSome(improved)
                 THEN kw("improve", <<sendSSE("STATE_UPDATE", [state |-> Val(improved)])>>,
                         W("I improved the recipe"))
                 ELSE kw("improve", <<>>, W("Sorry, I encountered an error improving the recipe."))
        ELSE IF StartsWith(userInput, ExecutePrefix) /\ jsonStart # 0 - 1
        THEN LET planTitle == Substring(userInput, Len(ExecutePrefix), jsonStart)
                 steps == ParseSteps(SubstringFrom(userInput, jsonStart + 1))
             IN  IF IsSome(steps)
                 THEN kw("execute", <<>>, executePlan(planTitle, Val(steps)))
                 ELSE kw("execute", <<>>, W("Error executing plan"))
        ELSE IF SomeIncluded(userLower, planningKeywords)
        THEN kw("planning", <<>>, createPlanComponent(PlanTopic(userInput, userLower)))
        ELSE IF SomeIncluded(userLower, weatherKeywords)
        THEN kw("weather", <<>>, createWeatherComponent(WeatherLocation(userInput, userLower)))
        ELSE IF SomeIncluded(userLower, timeKeywords)
        THEN kw("time", <<>>, W("Current time:") \o W("now"))
        ELSE IF SomeIncluded(userLower, themeKeywords)
        THEN LET theme == IF Includes(userLower, W("light")) THEN "light" ELSE "dark"
             IN  kw("theme",
                    <<sendSSE("UI_ACTION", [action |-> "changeTheme",
                                            args |-> [kind |-> "object",
                                                      pairs |-> {<<Ch("theme"), Ch(theme)>>}]])>>,
                    W("Switched to") \o W(theme) \o W("theme!"))
        ELSE IF SomeIncluded(userLower, resetKeywords)
        THEN kw("reset",
                <<sendSSE("UI_ACTION", [action |-> "resetUI",
                                        args |-> [kind |-> "object", pairs |-> {}]])>>,
                W("UI reset to defaults!"))
        ELSE IF SomeIncluded(userLower, bgKeywords)
        THEN LET color == BgColor(userInput)
             IN  kw("background",
                    <<sendSSE("UI_ACTION", [action |-> "changeBackgroundColor",
                                            args |-> [kind |-> "object",
                                                      pairs |-> {<<Ch("color"), JStr(color)>>}]])>>,
                    W("Background changed to") \o color)
        ELSE IF \/ Trim(userLower) \in greetings
                \/ StartsWith(userLower, <<Ch("hello"), COMMA>>)
                \/ StartsWith(userLower, <<Ch("hi"), COMMA>>)
        THEN kw("greeting", <<>>, W("Hello! I'm your AI assistant (Mastra)."))
        ELSE [route |-> "llm", pre |-> <<>>, responseText |-> <<>>,
              useKeywordResponse |-> FALSE]

-----------------------------------------------------------------------------
(* Server: POST /api/copilotkit of server.ts.  The handler runs without    *)
(* suspending up to `await generateText`, and between two 20 ms timers.     *)

\* `run-${Date.now().toString(36)}` and its siblings, at server time t
RunId(t) == <<"run", "server", t>>
ThreadId(t) == <<"thread", "server", t>>
MessageId(t) == <<"msg", "server", t>>

\* what generateText can do: reject, or resolve with a text
LlmOutcomes ==
    {[ok |-> FALSE, message |-> "LLM request failed"]}
        \cup {[ok |-> TRUE, text |-> Phrase([i \in 1..n |-> "tok"])] : n \in 0..MaxWords}

\* the request bodies: without messages, without a user message, or ending in one
Body(userInput) == [messages |-> Some(<<[role |-> "user", content |-> userInput]>>)]
NoMessagesBody == [messages |-> None]
NoUserBody == [messages |-> Some(<<[role |-> "assistant", content |-> W("earlier")]>>)]

\* messages.filter(m => m.role === 'user').pop()?.content || ''
LastUserInput(msgs) ==
    LET users == SelectSeq(msgs, LAMBDA m : m.role = "user")
    IN  IF users = <<>> THEN <<>> ELSE users[Len(users)].content

\* the catch and finally blocks
CatchFrames(t, errorMessage) ==
    <<sendSSE("RUN_ERROR", [runId |-> RunId(t), message |-> errorMessage])>>
FinallyFrames == <<sendSSE("DONE", <<>>)>>
\* faulty variant: a handler whose DONE sits at the end of the try block only
NoFramesAfterCatch == <<>>
\* the finally block runs after the catch block too
AfterCatchFrames == FinallyFrames

\* faulty variant: the run is declared finished before its message is sealed
EndFramesSwapped(t) ==
    <<sendSSE("RUN_FINISHED", [runId |-> RunId(t), threadId |-> ThreadId(t)]),
      sendSSE("TEXT_MESSAGE_END", [messageId |-> MessageId(t)])>>

\* TEXT_MESSAGE_END and RUN_FINISHED, the end of the try block
EndFrames(t) ==
    <<sendSSE("TEXT_MESSAGE_END", [messageId |-> MessageId(t)]),
      sendSSE("RUN_FINISHED", [runId |-> RunId(t), threadId |-> ThreadId(t)])>>

\* sendSSE(res, 'RUN_STARTED', { runId, threadId })
StartedFrames(t) ==
    <<sendSSE("RUN_STARTED", [runId |-> RunId(t), threadId |-> ThreadId(t)])>>
\* `messages.filter` on a body without messages throws into the catch block
ThrownSegment(t) ==
    [frames |-> StartedFrames(t) \o CatchFrames(t, "Cannot read properties of undefined")
                    \o AfterCatchFrames,
     route |-> "throw", suspended |-> FALSE]
\* the handler after the router has decided r
RoutedSegment(t, r) ==
    IF r.useKeywordResponse
    THEN [frames |-> StartedFrames(t) \o r.pre
                        \o <<sendSSE("TEXT_MESSAGE_START",
                                     [messageId |-> MessageId(t), role |-> "assistant"]),
                             sendSSE("TEXT_MESSAGE_CONTENT",
                                     [messageId |-> MessageId(t), delta |-> r.responseText])>>
                        \o EndFrames(t) \o FinallyFrames,
          route |-> r.route, suspended |-> FALSE]
    ELSE [frames |-> StartedFrames(t) \o r.pre
                        \o <<sendSSE("TEXT_MESSAGE_START",
                                     [messageId |-> MessageId(t), role |-> "assistant"])>>,
          route |-> r.route, suspended |-> TRUE]
\* the frames of the first synchronous segment: up to the end of the handler on a
\* keyword route (or a throw), up to `await generateText` otherwise
FirstSegment(t, body) ==
    IF ~IsSome(body.messages) THEN ThrownSegment(t)
    ELSE RoutedSegment(t, Route(LastUserInput(Val(body.messages))))

\* words[i] + (i < words.length - 1 ? ' ' : ''), i 1-based here
WordChunk(words, i) == words[i] \o (IF i < Len(words) THEN <<SP>> ELSE <<>>)
WordFrame(t, words, i) ==
    sendSSE("TEXT_MESSAGE_CONTENT", [messageId |-> MessageId(t), delta |-> WordChunk(words, i)])

\* everything the handler writes in one run, given what generateText does
RECURSIVE WordFrames(_, _, _)
WordFrames(t, words, i) ==
    IF i > Len(words) THEN <<>> ELSE <<WordFrame(t, words, i)>> \o WordFrames(t, words, i + 1)
Continued(first, t, llm) ==
    IF ~first.suspended THEN first.frames
    ELSE IF llm.ok
    THEN first.frames \o WordFrames(t, Split(llm.text, SP), 1) \o EndFrames(t) \o FinallyFrames
    ELSE first.frames \o CatchFrames(t, llm.message) \o AfterCatchFrames
Response(t, body, llm) == Continued(FirstSegment(t, body), t, llm)

-----------------------------------------------------------------------------
(* Server: the earlier handler of POST /api/copilotkit, which announces the *)
(* UI actions it finds in the user input as tool calls and always asks the  *)
(* LLM for the text.                                                        *)

colorNames ==
    {"blue", "red", "green", "yellow", "purple", "pink", "orange", "black", "white", "gray"}

\* the positions of the words of a set in a text
Positions(text, ws) == {i \in 1..Len(text) : \E w \in ws : text[i] = Ch(w)}

\* /(?:change|set|make).*(?:background|bg).*(?:to|color)?\s*(blue|...)/ : a verb,
\* later a background word, later a colour; the greedy .* captures the last one
ColorMatch(lowerText) ==
    LET hits == {k \in Positions(lowerText, colorNames) :
                    \E j \in Positions(lowerText, {"background", "bg"}) :
                       /\ j < k
                       /\ \E i \in Positions(lowerText, {"change", "set", "make"}) : i < j}
    IN  IF hits = {} THEN None
        ELSE Some(lowerText[CHOOSE k \in hits : \A k2 \in hits : k2 <= k])

\* /(?:show|display).*notification.*(?:saying|with|message)?\s*['"]?(.+?)['"]?$/ :
\* the greedy .* leaves the lazy group the last character of the text
NotifyMatch(lowerText) ==
    IF \E j \in Positions(lowerText, {"notification"}) :
          /\ j < Len(lowerText)
          /\ \E i \in Positions(lowerText, {"show", "display"}) : i < j
    THEN Some(lowerText[Len(lowerText)])
    ELSE None

\* parseUIActions(text): the actions in the order they are pushed
parseUIActions(text) ==
    LET lowerText == ToLowerCase(text)
        obj(pairs) == [kind |-> "object", pairs |-> pairs]
        color == ColorMatch(lowerText)
        notify == NotifyMatch(lowerText)
    IN  (IF IsSome(color)
         THEN <<[action |-> "changeBackgroundColor",
                 args |-> obj({<<Ch("color"), Val(color)>>})]>>
         ELSE <<>>)
        \o (IF \/ Includes(lowerText, Phrase(<<"light", "theme">>))
               \/ Includes(lowerText, Phrase(<<"light", "mode">>))
            THEN <<[action |-> "changeTheme", args |-> obj({<<Ch("theme"), Ch("light")>>})]>>
            ELSE IF \/ Includes(lowerText, Phrase(<<"dark", "theme">>))
                    \/ Includes(lowerText, Phrase(<<"dark", "mode">>))
            THEN <<[action |-> "changeTheme", args |-> obj({<<Ch("theme"), Ch("dark")>>})]>>
            ELSE <<>>)
        \o (IF IsSome(notify)
            THEN <<[action |-> "showNotification",
                    args |-> obj({<<Ch("message"), Val(notify)>>, <<Ch("type"), Ch("info")>>})]>>
            ELSE <<>>)
        \o (IF /\ Includes(lowerText, W("reset"))
               /\ (Includes(lowerText, W("ui")) \/ Includes(lowerText, W("default")))
            THEN <<[action |-> "resetUI", args |-> obj({})]>>
            ELSE <<>>)

\* `tool-${Date.now().toString(36)}`
ToolCallId(t) == <<"tool", "server", t>>

\* what Date.now() can gain between the TOOL_CALL_START and the TOOL_CALL_END
\* of one action: nothing, or the millisecond that ends in between
ClockSteps == 0..1

\* for (const action of uiActions): TOOL_CALL_START, UI_ACTION, TOOL_CALL_END;
\* the two toolCallId are two readings of Date.now(), d apart
RECURSIVE ActionFrames(_, _, _)
ActionFrames(t, d, actions) ==
    IF actions = <<>> THEN <<>>
    ELSE <<sendSSE("TOOL_CALL_START",
                   [toolCallId |-> ToolCallId(t), toolName |-> Head(actions).action]),
           sendSSE("UI_ACTION", [action |-> Head(actions).action, args |-> Head(actions).args]),
           sendSSE("TOOL_CALL_END", [toolCallId |-> ToolCallId(t + d)])>>
         \o ActionFrames(t + d, d, Tail(actions))

\* the frames of the earlier handler up to `await generateText`, or up to its end
\* when it throws before
FirstSegmentOfActions(t, d, body) ==
    IF ~IsSome(body.messages) THEN ThrownSegment(t)
    ELSE [frames |-> StartedFrames(t)
                        \o ActionFrames(t, d, parseUIActions(LastUserInput(Val(body.messages))))
                        \o <<sendSSE("TEXT_MESSAGE_START",
                                     [messageId |-> MessageId(t), role |-> "assistant"])>>,
          route |-> "llm", suspended |-> TRUE]

-----------------------------------------------------------------------------
(* Server: one run of a handler, step by step.  pc is where the handler is  *)
(* suspended: at `await generateText`, at the 20 ms timer of the word loop,  *)
(* or nowhere once res.end() has run.                                       *)

Handlers == {"server.ts", "actions"}

IdleServer ==
    [pc |-> "idle", handler |-> "server.ts", t |-> 0, body |-> NoMessagesBody,
     route |-> "none", out |-> <<>>, words |-> <<>>, i |-> 0, llmCalled |-> FALSE]

\* the request arrives: the handler runs to its first suspension
Suspended(first, handler, t, body) ==
    [pc |-> IF first.suspended THEN "generateText" ELSE "closed",
     handler |-> handler, t |-> t, body |-> body, route |-> first.route,
     out |-> first.frames, words |-> <<>>, i |-> 0, llmCalled |-> first.suspended]
SrvRequest(handler, body, d) ==
    /\ srv.pc = "idle"
    /\ srv' = Suspended(IF handler = "server.ts" THEN FirstSegment(1, body)
                        ELSE FirstSegmentOfActions(1, d, body),
                        handler, 1, body)
    /\ UNCHANGED <<hookVars, now, reqs, lastCall, wire, uiActionsRef>>

\* generateText resolves: the first word is written, then the loop waits
SrvResolve(text) ==
    /\ srv.pc = "generateText"
    /\ LET words == Split(text, SP)
       IN  srv' = [srv EXCEPT !.pc = "timer", !.words = words, !.i = 1,
                              !.out = Append(@, WordFrame(srv.t, words, 1))]
    /\ UNCHANGED <<hookVars, now, reqs, lastCall, wire, uiActionsRef>>

\* generateText rejects: the catch block, then the finally block
SrvReject(message) ==
    /\ srv.pc = "generateText"
    /\ srv' = [srv EXCEPT !.pc = "closed",
                          !.out = @ \o CatchFrames(srv.t, message) \o AfterCatchFrames]
    /\ UNCHANGED <<hookVars, now, reqs, lastCall, wire, uiActionsRef>>

\* the 20 ms timer fires: the next word, or the end of the try block and finally
SrvTimer ==
    /\ srv.pc = "timer"
    /\ srv' = IF srv.i < Len(srv.words)
              THEN [srv EXCEPT !.i = @ + 1,
                               !.out = Append(@, WordFrame(srv.t, srv.words, srv.i + 1))]
              ELSE [srv EXCEPT !.pc = "closed",
                               !.out = @ \o EndFrames(srv.t) \o FinallyFrames]
    /\ UNCHANGED <<hookVars, now, reqs, lastCall, wire, uiActionsRef>>

-----------------------------------------------------------------------------
(* Client: processSSELine of useAGUI.ts, as a function of the hook's state *)

\* the handlers the application passes to useAGUI; uiActionsRef holds them
uiActions == {"changeBackgroundColor", "changeTheme", "showNotification", "resetUI"}

\* args.<name>: the value of a parsed object, None when absent
Arg(args, name) ==
    IF args.kind = "object" /\ \E q \in args.pairs : q[1] = Ch(name)
    THEN Some((CHOOSE q \in args.pairs : q[1] = Ch(name))[2])
    ELSE None

\* executeUIAction(toolName, args): the handler calls it makes
executeUIAction(toolName, args) ==
    IF toolName \in {"changeBackgroundColor", "change_background_color"}
    THEN IF "changeBackgroundColor" \in uiActionsRef /\ IsSome(Arg(args, "color"))
         THEN <<<<"changeBackgroundColor", Arg(args, "color")>>>> ELSE <<>>
    ELSE IF toolName \in {"changeTheme", "change_theme"}
    THEN IF "changeTheme" \in uiActionsRef /\ IsSome(Arg(args, "theme"))
         THEN <<<<"changeTheme", Arg(args, "theme")>>>> ELSE <<>>
    ELSE IF toolName \in {"showNotification", "show_notification"}
    THEN IF "showNotification" \in uiActionsRef /\ IsSome(Arg(args, "message"))
         THEN <<<<"showNotification", Arg(args, "message")>>>> ELSE <<>>
    ELSE IF toolName \in {"resetUI", "reset_ui"}
    THEN IF "resetUI" \in uiActionsRef THEN <<<<"resetUI", None>>>> ELSE <<>>
    ELSE <<>>

\* the state processSSELine reads and writes
Hook == [messages |-> messages, isStreaming |-> isStreaming, activeTool |-> activeTool,
         error |-> error, metrics |-> metrics, startTimeRef |-> startTimeRef,
         firstTokenTimeRef |-> firstTokenTimeRef, tokenCountRef |-> tokenCountRef,
         timers |-> timers, uiCalls |-> uiCalls, thrown |-> FALSE]

\* startTimeRef.current || 0
OrZero(o) == IF IsSome(o) THEN Val(o) ELSE 0

\* case 'TEXT_MESSAGE_START'
OpenMessage(h, data, currentMsgId) ==
    [h EXCEPT !.messages =
        Append(@, [id |-> Field(data, "messageId", currentMsgId), role |-> "assistant",
                   content |-> <<>>, isComplete |-> FALSE, component |-> None])]

\* faulty variant: the last message, whatever its role
TargetIndexAnyRole(msgs) == Len(msgs)

\* the message a content or end event works on: the last one, when it is an
\* assistant message
TargetIndex(msgs) ==
    IF Len(msgs) >= 1 /\ msgs[Len(msgs)].role = "assistant" THEN Len(msgs) ELSE 0

\* case 'TEXT_MESSAGE_CONTENT'
AppendDelta(h, data, t) ==
    LET first == ~IsSome(h.firstTokenTimeRef)
        h1 == IF first
              THEN [h EXCEPT !.firstTokenTimeRef = Some(t),
                             !.metrics.ttft = Some(t - OrZero(h.startTimeRef))]
              ELSE h
        h2 == [h1 EXCEPT !.tokenCountRef = @ + 1]
        idx == TargetIndex(h.messages)
    IN  IF idx = 0 THEN h2
        ELSE [h2 EXCEPT !.messages[idx].content = @ \o Field(data, "delta", <<>>)]

\* faulty variant: the type runs up to the last colon of the content
ExtractAtLastColon(content) ==
    LET afterPrefix == SubstringFrom(content, Len(ComponentPrefix))
        colons == {i \in 1..Len(afterPrefix) : afterPrefix[i] = COLON}
        colonIdx == IF colons = {} THEN 0 - 1
                    ELSE (CHOOSE i \in colons : \A j \in colons : j <= i) - 1
        componentData == JsonParse(SubstringFrom(afterPrefix, colonIdx + 1))
    IN  IF IsSome(componentData)
        THEN Some([type |-> Substring(afterPrefix, 0, colonIdx), data |-> Val(componentData)])
        ELSE None

\* the COMPONENT:<Type>:<JSON> extraction of TEXT_MESSAGE_END; None when the
\* parse throws
ExtractComponent(content) ==
    LET afterPrefix == SubstringFrom(content, Len(ComponentPrefix))
        colonIdx == IndexOf(afterPrefix, COLON)
        componentType == Substring(afterPrefix, 0, colonIdx)
        jsonStr == SubstringFrom(afterPrefix, colonIdx + 1)
        componentData == JsonParse(jsonStr)
    IN  IF IsSome(componentData)
        THEN Some([type |-> componentType, data |-> Val(componentData)])
        ELSE None

\* faulty variant: the catch block of the extraction forgets to seal the message
SealOnlyParsed(h) ==
    LET idx == TargetIndex(h.messages)
    IN  IF idx = 0 THEN h
        ELSE LET content == h.messages[idx].content
                 comp == IF StartsWith(content, ComponentPrefix)
                         THEN ExtractComponent(content) ELSE None
             IN  IF IsSome(comp)
                 THEN [h EXCEPT !.messages[idx].content = <<>>,
                                !.messages[idx].isComplete = TRUE,
                                !.messages[idx].component = comp]
                 ELSE IF StartsWith(content, ComponentPrefix) THEN h
                 ELSE [h EXCEPT !.messages[idx].isComplete = TRUE]

\* case 'TEXT_MESSAGE_END'
SealMessage(h) ==
    LET idx == TargetIndex(h.messages)
    IN  IF idx = 0 THEN h
        ELSE LET content == h.messages[idx].content
                 comp == IF StartsWith(content, ComponentPrefix)
                         THEN ExtractComponent(content) ELSE None
             IN  IF IsSome(comp)
                 THEN [h EXCEPT !.messages[idx].content = <<>>,
                                !.messages[idx].isComplete = TRUE,
                                !.messages[idx].component = comp]
                 ELSE [h EXCEPT !.messages[idx].isComplete = TRUE]

\* faulty variant: the new call is spread over the one in the slot, which keeps
\* the args a start without args does not bring
StartToolOverPrevious(h, data) ==
    [h EXCEPT !.activeTool =
        Some([id |-> IF "toolCallId" \in DOMAIN data THEN Some(data.toolCallId) ELSE None,
              name |-> Field(data, "toolName", ""),
              args |-> IF "args" \in DOMAIN data THEN Some(data.args)
                       ELSE IF IsSome(@) THEN Val(@).args ELSE None,
              result |-> None, status |-> "running"])]

\* case 'TOOL_CALL_START'
StartTool(h, data) ==
    [h EXCEPT !.activeTool =
        Some([id |-> IF "toolCallId" \in DOMAIN data THEN Some(data.toolCallId) ELSE None,
              name |-> Field(data, "toolName", ""),
              args |-> IF "args" \in DOMAIN data THEN Some(data.args) ELSE None,
              result |-> None, status |-> "running"])]

\* faulty variant: the delta is parsed inside the try block of processSSELine,
\* whose catch block skips the frame
ToolArgsParsedInTry(h, data) ==
    IF ~IsSome(h.activeTool) THEN h
    ELSE LET delta == Field(data, "delta", <<>>)
             args == JsonParse(IF delta = <<>> THEN <<LBRACE, RBRACE>> ELSE delta)
         IN  IF IsSome(args) THEN [h EXCEPT !.activeTool[1].args = args] ELSE h

\* faulty variant: the snapshot is merged into the args the call has, key by key
ToolArgsMerged(h, data) ==
    IF ~IsSome(h.activeTool) THEN h
    ELSE LET delta == Field(data, "delta", <<>>)
             args == JsonParse(IF delta = <<>> THEN <<LBRACE, RBRACE>> ELSE delta)
             prev == Val(h.activeTool).args
         IN  IF ~IsSome(args) THEN [h EXCEPT !.thrown = TRUE]
             ELSE IF IsSome(prev) /\ Val(prev).kind = "object" /\ Val(args).kind = "object"
             THEN [h EXCEPT !.activeTool[1].args =
                      Some([kind |-> "object",
                            pairs |-> {q \in Val(prev).pairs :
                                          \A n \in Val(args).pairs : n[1] # q[1]}
                                      \cup Val(args).pairs])]
             ELSE [h EXCEPT !.activeTool[1].args = args]

\* case 'TOOL_CALL_ARGS': JSON.parse(data.delta || '{}') replaces the args.  The
\* parse runs inside the updater passed to setActiveTool, which React calls
\* outside the try block of processSSELine: a delta that does not parse makes
\* the updater throw, uncaught by line 313
ToolArgs(h, data) ==
    IF ~IsSome(h.activeTool) THEN h
    ELSE LET delta == Field(data, "delta", <<>>)
             args == JsonParse(IF delta = <<>> THEN <<LBRACE, RBRACE>> ELSE delta)
         IN  IF IsSome(args) THEN [h EXCEPT !.activeTool[1].args = args]
             ELSE [h EXCEPT !.thrown = TRUE]

\* case 'TOOL_CALL_END': the statements after its `break` never run
EndTool(h, t) ==
    [h EXCEPT !.activeTool = IF IsSome(@) THEN Some([Val(@) EXCEPT !.status = "complete"])
                             ELSE None,
              !.timers = Append(@, t + GracePeriod)]

\* faulty variant: the state is merged into the recipe field by field, one call
\* of the handler for each
StateUpdateFieldwise(h, data) ==
    IF "state" \in DOMAIN data /\ "updateRecipeState" \in uiActionsRef
    THEN [h EXCEPT !.uiCalls = @ \o [i \in 1..Len(data.state) |->
                                        <<"updateRecipeState", Some(<<data.state[i]>>)>>]
                                  \o <<<<"updateRecipeState", Some(data.state)>>>>]
    ELSE h

\* case 'STATE_UPDATE'
StateUpdate(h, data) ==
    IF "state" \in DOMAIN data /\ "updateRecipeState" \in uiActionsRef
    THEN [h EXCEPT !.uiCalls = Append(@, <<"updateRecipeState", Some(data.state)>>)]
    ELSE h

\* case 'UI_ACTION', 'FRONTEND_ACTION'
UiAction(h, data) ==
    IF Field(data, "action", "") # "" /\ "args" \in DOMAIN data
    THEN [h EXCEPT !.uiCalls = @ \o executeUIAction(data.action, data.args)]
    ELSE h

\* case 'RUN_STARTED'
RunStarted(h, t) ==
    [h EXCEPT !.isStreaming = TRUE, !.startTimeRef = Some(t),
              !.firstTokenTimeRef = None, !.tokenCountRef = 0]

\* case 'RUN_FINISHED': throughput is kept as the pair tokens / milliseconds
RunFinished(h, t) ==
    LET totalTime == t - OrZero(h.startTimeRef)
    IN  [h EXCEPT !.isStreaming = FALSE,
                  !.metrics.totalTokens = h.tokenCountRef,
                  !.metrics.totalTime = Some(totalTime),
                  !.metrics.throughput = Some(<<h.tokenCountRef, totalTime>>)]

\* faulty variant: the run error rolls the open assistant message back
RunErrorRollsBack(h, data) ==
    [h EXCEPT !.error = Some(Field(data, "message", "Unknown error")),
              !.isStreaming = FALSE,
              !.messages = SelectSeq(@, LAMBDA m : m.role # "assistant" \/ m.isComplete)]

\* case 'RUN_ERROR'
RunError(h, data) ==
    [h EXCEPT !.error = Some(Field(data, "message", "Unknown error")),
              !.isStreaming = FALSE]

\* faulty variant: DONE also dismisses the error
DoneClearsError(h) == [h EXCEPT !.isStreaming = FALSE, !.error = None]

\* faulty variant: DONE also clears the tool slot
DoneClearsTool(h) == [h EXCEPT !.isStreaming = FALSE, !.activeTool = None]

\* case 'DONE'
Done(h) == [h EXCEPT !.isStreaming = FALSE]

\* faulty variant: a default branch that treats every other type as the end of
\* the stream
ApplyEventWithDefault(h, data, currentMsgId, t) ==
    LET eventType == Field(data, "type", "")
    IN  CASE eventType = "RUN_STARTED" -> RunStarted(h, t)
          [] eventType = "TEXT_MESSAGE_START" -> OpenMessage(h, data, currentMsgId)
          [] eventType = "TEXT_MESSAGE_CONTENT" -> AppendDelta(h, data, t)
          [] eventType = "TEXT_MESSAGE_END" -> SealMessage(h)
          [] eventType = "TOOL_CALL_START" -> StartTool(h, data)
          [] eventType = "TOOL_CALL_ARGS" -> ToolArgs(h, data)
          [] eventType = "TOOL_CALL_END" -> EndTool(h, t)
          [] eventType = "STATE_UPDATE" -> StateUpdate(h, data)
          [] eventType \in {"UI_ACTION", "FRONTEND_ACTION"} -> UiAction(h, data)
          [] eventType = "RUN_FINISHED" -> RunFinished(h, t)
          [] eventType = "RUN_ERROR" -> RunError(h, data)
          [] OTHER -> Done(h)

\* the switch on data.type
ApplyEvent(h, data, currentMsgId, t) ==
    LET eventType == Field(data, "type", "")
    IN  CASE eventType = "RUN_STARTED" -> RunStarted(h, t)
          [] eventType = "TEXT_MESSAGE_START" -> OpenMessage(h, data, currentMsgId)
          [] eventType = "TEXT_MESSAGE_CONTENT" -> AppendDelta(h, data, t)
          [] eventType = "TEXT_MESSAGE_END" -> SealMessage(h)
          [] eventType = "TOOL_CALL_START" -> StartTool(h, data)
          [] eventType = "TOOL_CALL_ARGS" -> ToolArgs(h, data)
          [] eventType = "TOOL_CALL_END" -> EndTool(h, t)
          [] eventType = "STATE_UPDATE" -> StateUpdate(h, data)
          [] eventType \in {"UI_ACTION", "FRONTEND_ACTION"} -> UiAction(h, data)
          [] eventType = "RUN_FINISHED" -> RunFinished(h, t)
          [] eventType = "RUN_ERROR" -> RunError(h, data)
          [] eventType = "DONE" -> Done(h)
          [] OTHER -> h

\* processSSELine(line, currentMsgId) at time t
processSSELine(h, line, currentMsgId, t) ==
    IF ~StartsWith(line, DataPrefix) THEN h
    ELSE LET data == ParseEvent(SubstringFrom(line, Len(DataPrefix)))
         IN  IF IsSome(data) THEN ApplyEvent(h, Val(data), currentMsgId, t) ELSE h

\* for (const line of lines) if (line.trim()) processSSELine(line, assistantMsgId)
RECURSIVE DispatchLines(_, _, _, _)
DispatchLines(h, lines, currentMsgId, t) ==
    IF lines = <<>> THEN h
    ELSE DispatchLines(IF TrimNonEmpty(Head(lines))
                       THEN processSSELine(h, Head(lines), currentMsgId, t)
                       ELSE h,
                       Tail(lines), currentMsgId, t)

\* the lines of a chunk that reach processSSELine
Dispatched(lines) == SelectSeq(lines, TrimNonEmpty)

-----------------------------------------------------------------------------
(* Client: the entry points of useAGUI and their asynchronous continuations. *)
(* A request is one invocation of sendMessage or sendRecipeImproveRequest:   *)
(* it suspends at `await fetch` (pc "fetch") and at `await reader.read()`    *)
(* (pc "read"); everything between two suspensions is one step.              *)

Requests == 1..Len(reqs)

\* no entry point was called in the last step
NoCall == [op |-> "none", blank |-> FALSE, issued |-> FALSE]
Active(r) == reqs[r].pc # "done"

\* faulty variant: the rejection of an aborted request waits like any other task
AbortDeferred == FALSE

\* An abort rejects the pending fetch or read of its request; the rejection is
\* delivered as a microtask, before any other task runs.
AbortPending(r) == reqs[r].aborted /\ Active(r)
MicrotaskPending == \E r \in Requests : AbortPending(r)

\* the reads of a request the runtime still lets through
CanRead(r) == reqs[r].pc = "read" /\ ~reqs[r].aborted

\* the text the server streams back for the user input, generateText doing llm
ResponseText(t, userInput, llm) == Flatten(Response(t, Body(userInput), llm))

NewRequest(kind, text, signal) ==
    [kind |-> kind, pc |-> "fetch", signal |-> signal, aborted |-> FALSE,
     response |-> text, pos |-> 0, buffer |-> <<>>, dispatched |-> <<>>,
     outcome |-> "pending"]

\* abortControllerRef.current.abort(): on the request the controller belongs to
Abort(rs, ref) ==
    IF IsSome(ref) /\ rs[Val(ref)].signal
    THEN [rs EXCEPT ![Val(ref)].aborted = TRUE]
    ELSE rs

\* faulty variant: the guard stands behind the abort of the previous request
sendMessageAbortsFirst(content, response) ==
    /\ ~MicrotaskPending
    /\ component = "mounted"
    /\ IF ~TrimNonEmpty(content) \/ isStreaming
       THEN /\ lastCall' = [op |-> "sendMessage", blank |-> ~TrimNonEmpty(content), issued |-> FALSE]
            /\ reqs' = Abort(reqs, abortControllerRef)
            /\ UNCHANGED <<hookVars, now, srv, wire, uiActionsRef>>
       ELSE LET rid == Len(reqs) + 1
                userMessage == [id |-> <<"msg", "user", rid>>, role |-> "user",
                                content |-> content, isComplete |-> TRUE,
                                component |-> None]
            IN  /\ Len(reqs) < MaxReq
                /\ reqs' = Append(Abort(reqs, abortControllerRef),
                                  NewRequest("message", response, TRUE))
                /\ abortControllerRef' = Some(rid)
                /\ error' = None
                /\ messages' = Append(messages, userMessage)
                /\ isConnected' = TRUE
                /\ lastCall' = [op |-> "sendMessage", blank |-> ~TrimNonEmpty(content),
                                issued |-> TRUE]
                /\ UNCHANGED <<isStreaming, activeTool, metrics, isImprovingRecipe,
                               startTimeRef, firstTokenTimeRef, tokenCountRef, timers,
                               uiCalls, now, srv, wire, uiActionsRef, component>>

\* sendMessage(content), up to `await fetch`, against an endpoint that will
\* stream the given response
sendMessageTo(content, response) ==
    /\ ~MicrotaskPending
    /\ component = "mounted"
    /\ IF ~TrimNonEmpty(content) \/ isStreaming
       THEN /\ lastCall' = [op |-> "sendMessage", blank |-> ~TrimNonEmpty(content), issued |-> FALSE]
            /\ UNCHANGED <<hookVars, now, reqs, srv, wire, uiActionsRef>>
       ELSE LET rid == Len(reqs) + 1
                userMessage == [id |-> <<"msg", "user", rid>>, role |-> "user",
                                content |-> content, isComplete |-> TRUE,
                                component |-> None]
            IN  /\ Len(reqs) < MaxReq
                /\ reqs' = Append(Abort(reqs, abortControllerRef),
                                  NewRequest("message", response, TRUE))
                /\ abortControllerRef' = Some(rid)
                /\ error' = None
                /\ messages' = Append(messages, userMessage)
                /\ isConnected' = TRUE
                /\ lastCall' = [op |-> "sendMessage", blank |-> ~TrimNonEmpty(content),
                                issued |-> TRUE]
                /\ UNCHANGED <<isStreaming, activeTool, metrics, isImprovingRecipe,
                               startTimeRef, firstTokenTimeRef, tokenCountRef, timers,
                               uiCalls, now, srv, wire, uiActionsRef, component>>

\* sendMessage(content) against server.ts, generateText doing llm
sendMessage(content, llm) ==
    sendMessageTo(content, ResponseText(Len(reqs) + 1, content, llm))

\* sendRecipeImproveRequest(recipeState), up to `await fetch`
sendRecipeImproveRequest(recipeState, llm) ==
    /\ ~MicrotaskPending
    /\ component = "mounted"
    /\ IF isImprovingRecipe
       THEN /\ lastCall' = [op |-> "sendRecipeImproveRequest", blank |-> FALSE, issued |-> FALSE]
            /\ UNCHANGED <<hookVars, now, reqs, srv, wire, uiActionsRef>>
       ELSE LET rid == Len(reqs) + 1
            IN  /\ Len(reqs) < MaxReq
                /\ isImprovingRecipe' = TRUE
                /\ error' = None
                /\ reqs' = Append(reqs, NewRequest("recipe",
                                     ResponseText(rid, ImprovePrefix \o recipeState, llm), FALSE))
                /\ lastCall' = [op |-> "sendRecipeImproveRequest", blank |-> FALSE, issued |-> TRUE]
                /\ UNCHANGED <<messages, isConnected, isStreaming, activeTool, metrics,
                               abortControllerRef, startTimeRef, firstTokenTimeRef,
                               tokenCountRef, timers, uiCalls, now, srv, wire, uiActionsRef, component>>

\* the hook's state after processSSELine has run on some lines
SetHook(h) ==
    /\ messages' = h.messages
    /\ isStreaming' = h.isStreaming
    /\ activeTool' = h.activeTool
    /\ error' = h.error
    /\ metrics' = h.metrics
    /\ startTimeRef' = h.startTimeRef
    /\ firstTokenTimeRef' = h.firstTokenTimeRef
    /\ tokenCountRef' = h.tokenCountRef
    /\ timers' = h.timers
    /\ uiCalls' = h.uiCalls

\* what the state setters of a step leave behind: nothing once the component
\* is gone, and nothing when an updater of the step throws, since the render
\* that would commit them fails; the refs and the handler calls are not state
Committed(h) ==
    IF component = "mounted" /\ ~h.thrown THEN h
    ELSE [h EXCEPT !.messages = messages, !.isStreaming = isStreaming,
                   !.activeTool = activeTool, !.error = error, !.metrics = metrics]

\* the render after a step: when an updater threw, React removes the component
\* and the cleanup of the effect aborts the request of the controller
AfterRender(h, rs) ==
    IF component = "mounted" /\ h.thrown
    THEN component' = "crashed" /\ reqs' = Abort(rs, abortControllerRef)
    ELSE component' = component /\ reqs' = rs

\* a state setter called from a continuation: dropped once the component is gone
SetState(value, current) == IF component = "mounted" THEN value ELSE current

\* `finally { setIsImprovingRecipe(false) }` of sendRecipeImproveRequest
Finally(r) ==
    isImprovingRecipe' =
        IF reqs[r].kind = "recipe" THEN SetState(FALSE, isImprovingRecipe)
        ELSE isImprovingRecipe

\* the catch block of the request, for a thrown error that is no AbortError
CatchError(r, message) ==
    /\ error' = SetState(Some(message), error)
    /\ isConnected' = IF reqs[r].kind = "message" THEN SetState(FALSE, isConnected)
                      ELSE isConnected
    /\ isStreaming' = IF reqs[r].kind = "message" THEN SetState(FALSE, isStreaming)
                      ELSE isStreaming
    /\ Finally(r)
    /\ reqs' = [reqs EXCEPT ![r].pc = "done", ![r].outcome = "failed"]
    /\ UNCHANGED <<messages, activeTool, metrics, abortControllerRef, startTimeRef,
                   firstTokenTimeRef, tokenCountRef, timers, uiCalls, now, srv, wire, uiActionsRef,
                   component>>
    /\ lastCall' = NoCall

\* fetch resolves with an OK response that has a body
FetchResolve(r) ==
    /\ ~MicrotaskPending
    /\ reqs[r].pc = "fetch"
    /\ reqs' = [reqs EXCEPT ![r].pc = "read"]
    /\ lastCall' = NoCall
    /\ UNCHANGED <<hookVars, now, srv, wire, uiActionsRef>>

\* fetch rejects, the response is not OK, or it has no body
FetchFail(r, message) ==
    /\ ~MicrotaskPending
    /\ reqs[r].pc = "fetch"
    /\ CatchError(r, message)

\* reader.read() rejects with an error of the transport
ReadFail(r) ==
    /\ ~MicrotaskPending
    /\ CanRead(r)
    /\ CatchError(r, "network error")

\* faulty variant: the unfinished last line of a chunk is dropped
NoRemainder(lines) == <<>>

\* buffer = lines.pop() || '': the unfinished last line stays in the buffer
Remainder(lines) == lines[Len(lines)]

\* the read loop's body on one chunk: the next n characters of the response
ReadChunk(r, n) ==
    /\ ~MicrotaskPending
    /\ CanRead(r)
    /\ n >= 1 /\ reqs[r].pos + n <= Len(reqs[r].response)
    /\ LET chunk == SubSeq(reqs[r].response, reqs[r].pos + 1, reqs[r].pos + n)
           lines == Split(reqs[r].buffer \o chunk, NL)
           complete == SubSeq(lines, 1, Len(lines) - 1)
           h == DispatchLines(Hook, complete, <<"msg", "assistant", r>>, now)
       IN  /\ SetHook(Committed(h))
           /\ AfterRender(h, [reqs EXCEPT ![r].pos = @ + n,
                                          ![r].buffer = Remainder(lines),
                                          ![r].dispatched = @ \o Dispatched(complete)])
    /\ lastCall' = NoCall
    /\ UNCHANGED <<isConnected, isImprovingRecipe, abortControllerRef, now, srv, wire, uiActionsRef>>

\* reader.read() reports done: the flush of the buffer and the end of the try block
ReadDone(r) ==
    /\ ~MicrotaskPending
    /\ CanRead(r)
    /\ LET rest == IF TrimNonEmpty(reqs[r].buffer) THEN <<reqs[r].buffer>> ELSE <<>>
           h == DispatchLines(Hook, rest, <<"msg", "assistant", r>>, now)
       IN  /\ SetHook(Committed(h))
           /\ AfterRender(h, [reqs EXCEPT ![r].pc = "done", ![r].outcome = "closed",
                                          ![r].dispatched = @ \o rest])
    /\ Finally(r)
    /\ lastCall' = NoCall
    /\ UNCHANGED <<isConnected, abortControllerRef, now, srv, wire, uiActionsRef>>

\* faulty variant: the catch block treats the AbortError like any other error
AbortSurfaced(r) ==
    /\ AbortPending(r)
    /\ error' = SetState(Some("The user aborted a request."), error)
    /\ isConnected' = SetState(FALSE, isConnected)
    /\ isStreaming' = SetState(FALSE, isStreaming)
    /\ reqs' = [reqs EXCEPT ![r].pc = "done", ![r].outcome = "aborted"]
    /\ UNCHANGED <<messages, activeTool, metrics, isImprovingRecipe, abortControllerRef,
                   startTimeRef, firstTokenTimeRef, tokenCountRef, timers, uiCalls, now,
                   srv, wire, uiActionsRef, component>>
    /\ lastCall' = NoCall

\* the catch block on the AbortError of an aborted request
AbortHandler(r) ==
    /\ AbortPending(r)
    /\ isStreaming' = SetState(FALSE, isStreaming)
    /\ reqs' = [reqs EXCEPT ![r].pc = "done", ![r].outcome = "aborted"]
    /\ UNCHANGED <<messages, isConnected, activeTool, error, metrics, isImprovingRecipe,
                   abortControllerRef, startTimeRef, firstTokenTimeRef, tokenCountRef,
                   timers, uiCalls, now, srv, wire, uiActionsRef, component>>
    /\ lastCall' = NoCall

\* setTimeout(() => setActiveTool(null), 1000) fires: the oldest timer, once
\* its delay has passed
TimerFire ==
    /\ ~MicrotaskPending
    /\ timers # <<>>
    /\ Head(timers) <= now
    /\ timers' = Tail(timers)
    /\ activeTool' = SetState(None, activeTool)
    /\ UNCHANGED <<messages, isConnected, isStreaming, error, metrics, isImprovingRecipe,
                   abortControllerRef, startTimeRef, firstTokenTimeRef, tokenCountRef,
                   uiCalls, now, reqs, srv, wire, uiActionsRef, component>>
    /\ lastCall' = NoCall

\* clearMessages()
clearMessages ==
    /\ ~MicrotaskPending
    /\ component = "mounted"
    /\ messages' = <<>>
    /\ error' = None
    /\ metrics' = [ttft |-> None, totalTokens |-> 0, totalTime |-> None, throughput |-> None]
    /\ UNCHANGED <<isConnected, isStreaming, activeTool, isImprovingRecipe,
                   abortControllerRef, startTimeRef, firstTokenTimeRef, tokenCountRef,
                   timers, uiCalls, now, reqs, srv, wire, uiActionsRef, component>>
    /\ lastCall' = [op |-> "clearMessages", blank |-> FALSE, issued |-> FALSE]

\* the component unmounts: the cleanup of the effect at the end of useAGUI
\* aborts the request of the controller
Unmount ==
    /\ ~MicrotaskPending
    /\ component = "mounted"
    /\ component' = "unmounted"
    /\ reqs' = Abort(reqs, abortControllerRef)
    /\ lastCall' = NoCall
    /\ UNCHANGED <<messages, isConnected, isStreaming, activeTool, error, metrics,
                   isImprovingRecipe, abortControllerRef, startTimeRef,
                   firstTokenTimeRef, tokenCountRef, timers, uiCalls, now, srv, wire, uiActionsRef>>

\* the application renders with other handlers: the effect stores them
Register(actions) ==
    /\ ~MicrotaskPending
    /\ component = "mounted"
    /\ actions # uiActionsRef
    /\ uiActionsRef' = actions
    /\ lastCall' = NoCall
    /\ UNCHANGED <<hookVars, now, reqs, srv, wire>>

\* performance.now() advances: for MaxClock observations, and as long as a
\* timer waits for its delay to pass
Tick ==
    /\ ~MicrotaskPending
    /\ \/ now < MaxClock * TickMs
       \/ timers # <<>> /\ now < Head(timers)
    /\ now' = now + TickMs
    /\ lastCall' = NoCall
    /\ UNCHANGED <<hookVars, reqs, srv, wire, uiActionsRef>>

-----------------------------------------------------------------------------
(* The session: what the user types and what the transport does *)

WeatherQuestion ==
    W("What's") \o <<SP>> \o W("the") \o <<SP>> \o Phrase(<<"weather", "in">>)
        \o <<SP>> \o W("Mumbai") \o W("?")
OpenQuestion == Phrase(<<"tell", "me", "more">>)
Blank == <<SP, SP>>

Contents == {WeatherQuestion, OpenQuestion}
\* what the input field can hold besides: nothing, or white space only
BlankContents == {<<>>, Blank, <<NL, Ch("\t")>>}
RecipeStates == {<<LBRACE, RBRACE>>}
\* a rejected fetch, a response that is not OK and a missing body all throw into
\* the same catch block
FetchErrors == {"HTTP 500: Internal Server Error"}

\* what generateText does in the runs the session observes
SessionLlm ==
    {[ok |-> FALSE, message |-> "LLM request failed"],
     [ok |-> TRUE, text |-> Phrase(<<"tok", "tok">>)]}

\* the chunk that is one res.write of the server: up to the next blank line
OneWrite(r) ==
    {n \in 2..(Len(reqs[r].response) - reqs[r].pos) :
        /\ reqs[r].response[reqs[r].pos + n] = NL
        /\ reqs[r].response[reqs[r].pos + n - 1] = NL
        /\ \A m \in 2..(n - 1) :
              ~(reqs[r].response[reqs[r].pos + m] = NL
                  /\ reqs[r].response[reqs[r].pos + m - 1] = NL)}
\* chunk sizes of any split of the stream
AnySplit(r) == 1..(Len(reqs[r].response) - reqs[r].pos)

\* nothing on the wire
IdleWire == [pc |-> "idle", eventType |-> "", data |-> <<>>, text |-> <<>>, decoded |-> <<>>]

Init ==
    /\ messages = <<>>
    /\ isConnected = TRUE
    /\ isStreaming = FALSE
    /\ activeTool = None
    /\ error = None
    /\ metrics = [ttft |-> None, totalTokens |-> 0, totalTime |-> None, throughput |-> None]
    /\ isImprovingRecipe = FALSE
    /\ abortControllerRef = None
    /\ startTimeRef = None
    /\ firstTokenTimeRef = None
    /\ tokenCountRef = 0
    /\ timers = <<>>
    /\ uiCalls = <<>>
    /\ now = 0
    /\ reqs = <<>>
    /\ lastCall = NoCall
    /\ srv = IdleServer
    /\ wire = IdleWire
    /\ uiActionsRef = uiActions
    /\ component = "mounted"

\* One session of the hook against server.ts, every chunk one write of the server
Next ==
    \/ \E content \in Contents, llm \in SessionLlm : sendMessage(content, llm)
    \/ \E recipeState \in RecipeStates, llm \in SessionLlm :
          sendRecipeImproveRequest(recipeState, llm)
    \/ \E r \in Requests : FetchResolve(r)
    \/ \E r \in Requests, message \in FetchErrors : FetchFail(r, message)
    \/ \E r \in Requests : \E n \in OneWrite(r) : ReadChunk(r, n)
    \/ \E r \in Requests : ReadDone(r)
    \/ \E r \in Requests : ReadFail(r)
    \/ \E r \in Requests : AbortHandler(r)

Spec == Init /\ [][Next]_vars

\* The same session, the user also sending what is blank
NextTyping ==
    \/ \E content \in Contents \cup BlankContents, llm \in SessionLlm :
          sendMessage(content, llm)
    \/ \E recipeState \in RecipeStates, llm \in SessionLlm :
          sendRecipeImproveRequest(recipeState, llm)
    \/ \E r \in Requests : FetchResolve(r)
    \/ \E r \in Requests, message \in FetchErrors : FetchFail(r, message)
    \/ \E r \in Requests : \E n \in OneWrite(r) : ReadChunk(r, n)
    \/ \E r \in Requests : ReadDone(r)
    \/ \E r \in Requests : ReadFail(r)
    \/ \E r \in Requests : AbortHandler(r)

SpecTyping == Init /\ [][NextTyping]_vars

\* The same session with the clock running
NextTimed ==
    \/ \E content \in Contents, llm \in SessionLlm : sendMessage(content, llm)
    \/ \E recipeState \in RecipeStates, llm \in SessionLlm :
          sendRecipeImproveRequest(recipeState, llm)
    \/ \E r \in Requests : FetchResolve(r)
    \/ \E r \in Requests, message \in FetchErrors : FetchFail(r, message)
    \/ \E r \in Requests : \E n \in OneWrite(r) : ReadChunk(r, n)
    \/ \E r \in Requests : ReadDone(r)
    \/ \E r \in Requests : ReadFail(r)
    \/ \E r \in Requests : AbortHandler(r)
    \/ Tick

SpecTimed == Init /\ [][NextTimed]_vars

\* A session that only calls sendMessage
NextMessages ==
    \/ \E content \in Contents, llm \in SessionLlm : sendMessage(content, llm)
    \/ \E r \in Requests : FetchResolve(r)
    \/ \E r \in Requests, message \in FetchErrors : FetchFail(r, message)
    \/ \E r \in Requests : \E n \in OneWrite(r) : ReadChunk(r, n)
    \/ \E r \in Requests : ReadDone(r)
    \/ \E r \in Requests : ReadFail(r)
    \/ \E r \in Requests : AbortHandler(r)

SpecMessages == Init /\ [][NextMessages]_vars

\* One request whose response reaches the read loop split in any way, and may be
\* closed after any chunk
FirstSend(content, llm) == reqs = <<>> /\ sendMessage(content, llm)

NextFraming ==
    \/ \E content \in Contents, llm \in SessionLlm : FirstSend(content, llm)
    \/ \E r \in Requests : FetchResolve(r)
    \/ \E r \in Requests : \E n \in AnySplit(r) : ReadChunk(r, n)
    \/ \E r \in Requests : ReadDone(r)

SpecFraming == Init /\ [][NextFraming]_vars

\* The inputs of the router: phrases of every route, alone and in pairs, and the
\* structured commands with and without a well-formed payload
KeyPhrases ==
    {Phrase(<<"how", "to">>), Phrase(<<"plan", "a", "trip">>), Phrase(<<"weather", "in">>),
     Phrase(<<"what", "time">>), Phrase(<<"dark", "mode">>), Phrase(<<"reset", "ui">>),
     Phrase(<<"change", "background", "to", "blue">>), Phrase(<<"hello">>),
     Phrase(<<"show", "notification", "saying", "hi">>), Phrase(<<"tell", "me">>)}
FreeTexts ==
    KeyPhrases \cup {a \o <<SP>> \o b : a \in KeyPhrases, b \in KeyPhrases}
        \cup {WeatherQuestion, <<>>}
Commands ==
    {ImprovePrefix \o <<LBRACE, RBRACE>>,
     ImprovePrefix \o <<LBRACE>>,
     ImprovePrefix \o <<LBRACE, Ch("ingredients"), COLON, Ch("bad"), RBRACE>>,
     ExecutePrefix \o W("Trip") \o <<COLON, Ch("["), Ch("step"), Ch("]")>>,
     ExecutePrefix \o W("Trip") \o <<COLON, Ch("[")>>,
     ExecutePrefix \o W("Trip")}
        \cup {ExecutePrefix \o a : a \in KeyPhrases}
ServerInputs == FreeTexts \cup Commands
ServerBodies == {Body(userInput) : userInput \in ServerInputs} \cup {NoMessagesBody, NoUserBody}
LlmTexts == {llm.text : llm \in {o \in LlmOutcomes : o.ok}}
LlmErrors == {llm.message : llm \in {o \in LlmOutcomes : ~o.ok}}

\* One run of either handler
NextServer ==
    \/ \E handler \in Handlers, body \in ServerBodies, d \in ClockSteps :
          SrvRequest(handler, body, d)
    \/ \E text \in LlmTexts : SrvResolve(text)
    \/ \E message \in LlmErrors : SrvReject(message)
    \/ SrvTimer

SpecServer == Init /\ [][NextServer]_vars

-----------------------------------------------------------------------------
(* Server: MastraAGUIAdapter.processMessage of adapter.ts.  The adapter     *)
(* hands its events to an emitter; a run is suspended at `await streamText` *)
(* and at every step of `for await (const chunk of result.textStream)`.     *)

\* this.emitter.<method>(...): the event the method is named for, recorded in
\* the order of the calls
emitter(method, data) ==
    CASE method = "emitRunStarted" -> sendSSE("RUN_STARTED", data)
      [] method = "emitRunFinished" -> sendSSE("RUN_FINISHED", data)
      [] method = "emitRunError" -> sendSSE("RUN_ERROR", data)
      [] method = "emitTextMessageStart" -> sendSSE("TEXT_MESSAGE_START", data)
      [] method = "emitTextChunk" -> sendSSE("TEXT_MESSAGE_CONTENT", data)
      [] method = "emitTextMessageEnd" -> sendSSE("TEXT_MESSAGE_END", data)
      [] method = "emitToolCallStart" -> sendSSE("TOOL_CALL_START", data)
      [] method = "emitToolCallEnd" -> sendSSE("TOOL_CALL_END", data)
      [] method = "emitUIAction" -> sendSSE("UI_ACTION", data)

docSearchKeywords ==
    {Phrase(<<"search", "docs">>), Phrase(<<"doc", "search">>),
     Phrase(<<"search", "documentation">>), Phrase(<<"find", "docs">>),
     Phrase(<<"search", "for", "docs">>), Phrase(<<"search", "in", "docs">>)}

\* mathPattern.exec(userInput): an arithmetic expression the pattern matches is
\* one token here, "2+2" one that evaluates and "2+*3" one that Function rejects
Expressions == {Ch("2+2"), Ch("2+*3")}
mathMatch(userInput) ==
    LET hits == {i \in 1..Len(userInput) : userInput[i] \in Expressions}
    IN  IF hits = {} THEN None
        ELSE Some(userInput[CHOOSE i \in hits : \A j \in hits : i <= j])

\* emitTextChunk(result, messageId); emitTextMessageEnd(messageId);
\* emitRunFinished(runId, threadId); return result
AnswerAndReturn(t, result) ==
    <<emitter("emitTextChunk", [messageId |-> MessageId(t), delta |-> result]),
      emitter("emitTextMessageEnd", [messageId |-> MessageId(t)]),
      emitter("emitRunFinished", [runId |-> RunId(t), threadId |-> ThreadId(t)])>>

\* the keyword routes behind the EXECUTE_PLAN check: the UI action a route
\* emits and its answer, None when no keyword matches
KeywordRoute(userInput) ==
    LET userLower == ToLowerCase(userInput)
        kw(name, pre, text) == Some([route |-> name, pre |-> pre, result |-> text])
        ui(action, pairs) ==
            <<emitter("emitUIAction",
                      [action |-> action, args |-> [kind |-> "object", pairs |-> pairs]])>>
    IN  IF SomeIncluded(userLower, planningKeywords)
        THEN kw("planning", <<>>, createPlanComponent(PlanTopic(userInput, userLower)))
        ELSE IF SomeIncluded(userLower, weatherKeywords)
        THEN kw("weather", <<>>, createWeatherComponent(WeatherLocation(userInput, userLower)))
        ELSE IF SomeIncluded(userLower, docSearchKeywords)
        THEN kw("docs", <<>>, ComponentPrefix \o W("DocSearchCard") \o <<COLON>>
                                \o <<LBRACE, Ch("query"), COLON, Ch("docs"), RBRACE>>)
        ELSE IF SomeIncluded(userLower, timeKeywords)
        THEN kw("time", <<>>, W("Current time:") \o W("now"))
        ELSE IF SomeIncluded(userLower, themeKeywords)
        THEN LET theme == IF Includes(userLower, W("light")) THEN "light" ELSE "dark"
             IN  kw("theme", ui("changeTheme", {<<Ch("theme"), Ch(theme)>>}),
                    W("Switched to") \o W(theme) \o W("theme!"))
        ELSE IF SomeIncluded(userLower, resetKeywords)
        THEN kw("reset", ui("resetUI", {}), W("UI reset to defaults!"))
        ELSE IF SomeIncluded(userLower, bgKeywords)
        THEN kw("background",
                ui("changeBackgroundColor", {<<Ch("color"), JStr(BgColor(userInput))>>}),
                W("Background changed to") \o BgColor(userInput))
        ELSE IF \/ Trim(userLower) \in greetings
                \/ StartsWith(userLower, <<Ch("hello"), COMMA>>)
                \/ StartsWith(userLower, <<Ch("hi"), COMMA>>)
        THEN kw("greeting", <<>>, W("Hello! I'm your AI assistant (Mastra)."))
        ELSE None

\* the calculator that runs before the LLM is asked: one toolCallId for both events
CalculatorFrames(t, userInput) ==
    LET m == mathMatch(userInput)
        calculatorResult == IF m = Some(Ch("2+2")) THEN W("Result: 4")
                            ELSE W("Error: Invalid expression")
    IN  IF IsSome(m)
        THEN <<emitter("emitToolCallStart",
                       [toolName |-> "calculator", toolCallId |-> ToolCallId(t),
                        args |-> [kind |-> "object",
                                  pairs |-> {<<Ch("expression"), Val(m)>>}]]),
               emitter("emitToolCallEnd",
                       [toolCallId |-> ToolCallId(t), result |-> calculatorResult])>>
        ELSE <<>>

\* processMessage(userInput) from its call to its return, or to `await streamText`
processMessage(t, userInput) ==
    LET started == <<emitter("emitRunStarted", [runId |-> RunId(t), threadId |-> ThreadId(t)])>>
        open == <<emitter("emitTextMessageStart",
                          [messageId |-> MessageId(t), role |-> "assistant"])>>
        jsonStart == IndexOfSeq(userInput, <<COLON, Ch("[")>>)
        \* the EXECUTE_PLAN branch opens the message before it looks for the steps
        opened == IF StartsWith(userInput, ExecutePrefix) THEN open ELSE <<>>
        r == KeywordRoute(userInput)
    IN  IF StartsWith(userInput, ExecutePrefix) /\ jsonStart # 0 - 1
        THEN LET planTitle == Substring(userInput, Len(ExecutePrefix), jsonStart)
                 steps == ParseSteps(SubstringFrom(userInput, jsonStart + 1))
             IN  [frames |-> started \o open
                                \o AnswerAndReturn(t, IF IsSome(steps)
                                                      THEN executePlan(planTitle, Val(steps))
                                                      ELSE W("Error executing plan")),
                  route |-> "execute", suspended |-> FALSE]
        ELSE IF IsSome(r)
        THEN [frames |-> started \o opened \o open \o Val(r).pre
                            \o AnswerAndReturn(t, Val(r).result),
              route |-> Val(r).route, suspended |-> FALSE]
        ELSE [frames |-> started \o opened \o CalculatorFrames(t, userInput) \o open,
              route |-> "llm", suspended |-> TRUE]

\* processMessage is called
AdpRequest(userInput) ==
    /\ srv.pc = "idle"
    /\ LET first == processMessage(1, userInput)
       IN  srv' = [pc |-> IF first.suspended THEN "streamText" ELSE "closed",
                   handler |-> "adapter.ts", t |-> 1, body |-> Body(userInput),
                   route |-> first.route, out |-> first.frames, words |-> <<>>, i |-> 0,
                   llmCalled |-> first.suspended]
    /\ UNCHANGED <<hookVars, now, reqs, lastCall, wire, uiActionsRef>>

\* streamText resolves with a stream of chunks
AdpStream(text) ==
    /\ srv.pc = "streamText"
    /\ srv' = [srv EXCEPT !.pc = "textStream", !.words = Split(text, SP)]
    /\ UNCHANGED <<hookVars, now, reqs, lastCall, wire, uiActionsRef>>

\* the stream yields its next chunk, or ends: emitTextMessageEnd, emitRunFinished
AdpChunk ==
    /\ srv.pc = "textStream"
    /\ srv' = IF srv.i < Len(srv.words)
              THEN [srv EXCEPT !.i = @ + 1,
                               !.out = Append(@, emitter("emitTextChunk",
                                                  [messageId |-> MessageId(srv.t),
                                                   delta |-> WordChunk(srv.words, srv.i + 1)]))]
              ELSE [srv EXCEPT !.pc = "closed",
                               !.out = @ \o <<emitter("emitTextMessageEnd",
                                                      [messageId |-> MessageId(srv.t)]),
                                              emitter("emitRunFinished",
                                                      [runId |-> RunId(srv.t),
                                                       threadId |-> ThreadId(srv.t)])>>]
    /\ UNCHANGED <<hookVars, now, reqs, lastCall, wire, uiActionsRef>>

\* faulty variant: RUN_FINISHED emitted in a finally block, behind the RUN_ERROR
\* of the catch block too
AdpRejectThenFinished(message) ==
    /\ srv.pc \in {"streamText", "textStream"}
    /\ srv' = [srv EXCEPT !.pc = "closed",
                          !.out = @ \o <<emitter("emitRunError",
                                                 [message |-> message, runId |-> RunId(srv.t)]),
                                         emitter("emitRunFinished",
                                                 [runId |-> RunId(srv.t),
                                                  threadId |-> ThreadId(srv.t)])>>]
    /\ UNCHANGED <<hookVars, now, reqs, lastCall, wire, uiActionsRef>>

\* streamText or its stream rejects: the catch block emits RUN_ERROR and rethrows
AdpReject(message) ==
    /\ srv.pc \in {"streamText", "textStream"}
    /\ srv' = [srv EXCEPT !.pc = "closed",
                          !.out = Append(@, emitter("emitRunError",
                                             [message |-> message, runId |-> RunId(srv.t)]))]
    /\ UNCHANGED <<hookVars, now, reqs, lastCall, wire, uiActionsRef>>

\* the inputs of the adapter: those of the router, and questions with arithmetic
AdapterInputs ==
    ServerInputs
        \cup {Phrase(<<"search", "docs">>),
              Phrase(<<"what", "is">>) \o <<SP, Ch("2+2")>>,
              Phrase(<<"calculate">>) \o <<SP, Ch("2+*3")>>,
              ExecutePrefix \o Phrase(<<"how", "to">>)}

\* One run of processMessage
NextAdapter ==
    \/ \E userInput \in AdapterInputs : AdpRequest(userInput)
    \/ \E text \in LlmTexts : AdpStream(text)
    \/ AdpChunk
    \/ \E message \in LlmErrors : AdpReject(message)

SpecAdapter == Init /\ [][NextAdapter]_vars

\* One run of the server side: the handler of server.ts, the earlier handler, or
\* the adapter
NextBackend == NextServer \/ NextAdapter

SpecBackend == Init /\ [][NextBackend]_vars

-----------------------------------------------------------------------------
(* One event from sendSSE to processSSELine, character by character *)

\* the characters JSON treats specially, and one that it does not
Alphabet == {Ch("n"), QUOTE, BSLASH, NL, COMMA, RBRACE}
Texts == UNION {[1..n -> Alphabet] : n \in 0..MaxText}
AnId == Text(<<Ch("id-1")>>)

\* the event kinds of section "Event JSON shape" with their fields
WireEvents ==
    {[eventType |-> e, data |-> [runId |-> AnId, threadId |-> AnId]] :
        e \in {"RUN_STARTED", "RUN_FINISHED"}}
    \cup {[eventType |-> "RUN_ERROR", data |-> [runId |-> AnId, message |-> Text(s)]] :
            s \in Texts}
    \cup {[eventType |-> "TEXT_MESSAGE_START",
           data |-> [messageId |-> AnId, role |-> Text(<<Ch("assistant")>>)]]}
    \cup {[eventType |-> "TEXT_MESSAGE_CONTENT",
           data |-> [messageId |-> AnId, delta |-> Text(s)]] : s \in Texts}
    \cup {[eventType |-> "TEXT_MESSAGE_END", data |-> [messageId |-> AnId]]}
    \cup {[eventType |-> "TOOL_CALL_START",
           data |-> [toolCallId |-> AnId, toolName |-> Text(s), args |-> a]] :
            s \in Texts, a \in {Undefined, Obj(<<>>)}}
    \cup {[eventType |-> "TOOL_CALL_START",
           data |-> [toolCallId |-> AnId, toolName |-> Text(<<Ch("changeTheme")>>),
                     args |-> Obj([theme |-> Text(s)])]] : s \in Texts}
    \cup {[eventType |-> "TOOL_CALL_ARGS",
           data |-> [toolCallId |-> AnId, delta |-> Text(s)]] : s \in Texts}
    \cup {[eventType |-> "TOOL_CALL_END", data |-> [toolCallId |-> AnId]]}
    \cup {[eventType |-> "TOOL_CALL_END", data |-> [toolCallId |-> AnId, result |-> v]] :
            v \in {Undefined} \cup {Text(s) : s \in Texts}}
    \cup {[eventType |-> "STATE_UPDATE", data |-> [state |-> Obj([title |-> Text(s)])]] :
            s \in Texts}
    \cup {[eventType |-> "UI_ACTION",
           data |-> [action |-> Text(<<Ch("changeTheme")>>),
                     args |-> Obj([theme |-> Text(s)])]] : s \in Texts}
    \cup {[eventType |-> "DONE", data |-> <<>>]}

\* the server writes the event
Emit(event) ==
    /\ wire.pc = "idle"
    /\ wire' = [pc |-> "written", eventType |-> event.eventType, data |-> event.data,
                text |-> WriteEvent(event.eventType, event.data), decoded |-> <<>>]
    /\ UNCHANGED <<hookVars, now, reqs, lastCall, srv, uiActionsRef>>

\* the client reads the write as one chunk and decodes the lines it dispatches
Receive ==
    /\ wire.pc = "written"
    /\ wire' = [wire EXCEPT !.pc = "decoded", !.decoded = DecodeWrite(wire.text)]
    /\ UNCHANGED <<hookVars, now, reqs, lastCall, srv, uiActionsRef>>

NextCodec ==
    \/ \E event \in WireEvents : Emit(event)
    \/ Receive

SpecCodec == Init /\ [][NextCodec]_vars

-----------------------------------------------------------------------------
(* The hook against any AG-UI endpoint: the frames of section "Event JSON    *)
(* shape" as sendSSE writes them, lines that are no event, and responses     *)
(* built from them.                                                          *)

RunStartedFrame == sendSSE("RUN_STARTED", [runId |-> RunId(1), threadId |-> ThreadId(1)])
RunFinishedFrame == sendSSE("RUN_FINISHED", [runId |-> RunId(1), threadId |-> ThreadId(1)])
RunErrorFrame == sendSSE("RUN_ERROR", [runId |-> RunId(1), message |-> "agent failed"])
DoneFrame == sendSSE("DONE", <<>>)
TextStartFrame ==
    sendSSE("TEXT_MESSAGE_START", [messageId |-> MessageId(1), role |-> "assistant"])
ContentFrame(delta) ==
    sendSSE("TEXT_MESSAGE_CONTENT", [messageId |-> MessageId(1), delta |-> delta])
TextEndFrame == sendSSE("TEXT_MESSAGE_END", [messageId |-> MessageId(1)])
ToolStartFrame ==
    sendSSE("TOOL_CALL_START", [toolCallId |-> ToolCallId(1), toolName |-> "changeTheme"])
ToolArgsFrame(delta) ==
    sendSSE("TOOL_CALL_ARGS", [toolCallId |-> ToolCallId(1), delta |-> delta])
ToolEndFrame == sendSSE("TOOL_CALL_END", [toolCallId |-> ToolCallId(1)])
\* a TOOL_CALL_END that carries the optional result, and a second tool call
ToolEndResultFrame ==
    sendSSE("TOOL_CALL_END", [toolCallId |-> ToolCallId(1), result |-> <<Ch("done")>>])
SecondToolStartFrame ==
    sendSSE("TOOL_CALL_START", [toolCallId |-> ToolCallId(2), toolName |-> "showNotification"])
SecondToolEndFrame == sendSSE("TOOL_CALL_END", [toolCallId |-> ToolCallId(2)])
\* events of kinds the switch has no case for: a kind of a later protocol
\* version that carries every field the known kinds read, a known kind in lower
\* case, and an event without a type
UnknownKindFrame ==
    sendSSE("STEP_STARTED",
            [messageId |-> MessageId(2), role |-> "assistant", delta |-> W("tok"),
             toolCallId |-> ToolCallId(2), toolName |-> "changeTheme",
             message |-> "agent failed", state |-> W("recipe"),
             action |-> "resetUI", args |-> [kind |-> "object", pairs |-> {}]])
LowerCaseKindFrame == sendSSE("run_finished", [runId |-> RunId(1), threadId |-> ThreadId(1)])
NoTypeFrame == DataPrefix \o Stringify([delta |-> W("tok")]) \o <<NL, NL>>
UnknownKindsStream ==
    <<RunStartedFrame, UnknownKindFrame, TextStartFrame, ContentFrame(W("tok")),
      LowerCaseKindFrame, ToolStartFrame, NoTypeFrame, TextEndFrame, UnknownKindFrame,
      RunFinishedFrame, DoneFrame>>

\* state and UI events: with and without their fields, for a handler that the
\* application has, for one under its snake-case name, and for an unknown one
StateFrame(state) == sendSSE("STATE_UPDATE", [state |-> state])
StateFrameWithoutState == sendSSE("STATE_UPDATE", <<>>)
UiFrame(action, pairs) ==
    sendSSE("UI_ACTION", [action |-> action, args |-> [kind |-> "object", pairs |-> pairs]])
UiFrameWithoutArgs == sendSSE("UI_ACTION", [action |-> "resetUI"])
StateEventsStream ==
    <<RunStartedFrame, TextStartFrame, ContentFrame(W("tok")), ToolStartFrame,
      StateFrame(W("first")), StateFrameWithoutState, StateFrame(W("second")),
      TextEndFrame, RunFinishedFrame, DoneFrame>>
UiEventsStream ==
    <<RunStartedFrame, TextStartFrame, ContentFrame(W("tok")),
      UiFrame("changeTheme", {<<Ch("theme"), Ch("dark")>>}), UiFrame("change_theme", {}),
      UiFrameWithoutArgs, UiFrame("openWindow", {}), UiFrame("reset_ui", {}),
      TextEndFrame, RunFinishedFrame, DoneFrame>>

OrphanContentStream ==
    <<RunStartedFrame, ContentFrame(W("tok")), TextEndFrame, TextStartFrame,
      ContentFrame(W("tok")), TextEndFrame, RunFinishedFrame, DoneFrame>>

\* a line of the stream that does not start with `data: `
NoPrefixLine == <<Ch("event:"), SP, Ch("ping"), NL, NL>>
\* `data: {"type"` : JSON.parse throws
BadJsonLine == DataPrefix \o <<LBRACE, Ch("type"), NL, NL>>
\* "COMPONENT:Foo:{not json"
BadComponent == ComponentPrefix \o W("Foo") \o <<COLON, LBRACE, Ch("not"), SP, Ch("json")>>
\* '{"theme":"dark"}' and '{"theme"'
GoodArgs == <<LBRACE, Ch("theme"), COLON, Ch("dark"), RBRACE>>
BadArgs == <<LBRACE, Ch("theme")>>
OtherArgs == <<LBRACE, Ch("message"), COLON, Ch("hi"), RBRACE>>
\* two args snapshots of one tool call with different keys
ArgsSnapshotsStream ==
    <<RunStartedFrame, ToolStartFrame, ToolArgsFrame(GoodArgs), ToolArgsFrame(OtherArgs),
      ToolEndFrame, RunFinishedFrame, DoneFrame>>
OverlappingToolsStream ==
    <<RunStartedFrame, ToolStartFrame, ToolArgsFrame(GoodArgs), SecondToolStartFrame,
      SecondToolEndFrame, RunFinishedFrame, DoneFrame>>

Streams ==
    {\* a component text whose payload does not parse, then a second message
     <<RunStartedFrame, TextStartFrame, ContentFrame(BadComponent), TextEndFrame,
       TextStartFrame, ContentFrame(W("tok")), TextEndFrame, RunFinishedFrame, DoneFrame>>,
     \* lines that do not decode between the events, and args without a tool call
     <<RunStartedFrame, TextStartFrame, NoPrefixLine, ContentFrame(W("tok")), BadJsonLine,
       ToolArgsFrame(BadArgs), ContentFrame(W("tok")), TextEndFrame, RunFinishedFrame,
       DoneFrame>>,
     \* a tool call whose second args snapshot does not parse
     <<RunStartedFrame, ToolStartFrame, ToolArgsFrame(GoodArgs), ToolArgsFrame(BadArgs),
       ToolEndFrame, TextStartFrame, ContentFrame(W("tok")), TextEndFrame, RunFinishedFrame,
       DoneFrame>>,
     \* the agent fails after part of the answer
     <<RunStartedFrame, TextStartFrame, ContentFrame(W("tok")), RunErrorFrame, DoneFrame>>,
     \* the agent fails during a tool call
     <<RunStartedFrame, ToolStartFrame, RunErrorFrame, DoneFrame>>,
     \* a complete tool call, and DONE written twice
     <<RunStartedFrame, ToolStartFrame, ToolArgsFrame(GoodArgs), ToolEndFrame,
       RunFinishedFrame, DoneFrame, DoneFrame>>,
     \* two tool calls, one behind the other, the first ending with a result
     <<RunStartedFrame, ToolStartFrame, ToolEndResultFrame, SecondToolStartFrame,
       SecondToolEndFrame, RunFinishedFrame, DoneFrame>>,
     \* a second tool call started while the first is running, with its args
     OverlappingToolsStream, ArgsSnapshotsStream,
     \* events of unknown kinds inside a message and a tool call
     UnknownKindsStream,
     \* state updates and UI actions inside a message and a tool call
     StateEventsStream, UiEventsStream,
     \* content and end events before any message was opened
     OrphanContentStream}

\* the chunk holds any number of whole writes of the endpoint
WholeWrites(r) ==
    {n \in 2..(Len(reqs[r].response) - reqs[r].pos) :
        /\ reqs[r].response[reqs[r].pos + n] = NL
        /\ reqs[r].response[reqs[r].pos + n - 1] = NL}

\* the handlers an application may pass: those of the chat page, those and a
\* recipe handler, or none
HandlerSets == {uiActions, uiActions \cup {"updateRecipeState"}, {}}

\* the first sendMessage of a session, the endpoint answering with a stream
Connect(content, stream) == reqs = <<>> /\ sendMessageTo(content, Flatten(stream))

\* One request against any endpoint, with the clock, the timers and the unmount
NextClient ==
    \/ \E content \in Contents, stream \in Streams : Connect(content, stream)
    \/ \E r \in Requests : FetchResolve(r)
    \/ \E r \in Requests, message \in FetchErrors : FetchFail(r, message)
    \/ \E r \in Requests : \E n \in WholeWrites(r) : ReadChunk(r, n)
    \/ \E r \in Requests : ReadDone(r)
    \/ \E r \in Requests : ReadFail(r)
    \/ \E r \in Requests : AbortHandler(r)
    \/ TimerFire
    \/ Tick
    \/ Unmount
    \/ \E actions \in HandlerSets : Register(actions)

SpecClient == Init /\ [][NextClient]_vars

\* what the runtime owes the hook: a pending fetch is answered, a response
\* stream comes to its end, the rejection of an aborted request is delivered,
\* time passes, a timer whose delay has passed fires
Settles ==
    \/ \E r \in Requests : FetchResolve(r)
    \/ \E r \in Requests : ReadDone(r)
    \/ \E r \in Requests : AbortHandler(r)

SpecClientLive == SpecClient /\ WF_vars(Settles) /\ WF_vars(TimerFire) /\ WF_vars(Tick)

\* A session that only calls sendMessage and may unmount at any time
NextLifecycle ==
    \/ \E content \in Contents, llm \in SessionLlm : sendMessage(content, llm)
    \/ \E r \in Requests : FetchResolve(r)
    \/ \E r \in Requests, message \in FetchErrors : FetchFail(r, message)
    \/ \E r \in Requests : \E n \in OneWrite(r) : ReadChunk(r, n)
    \/ \E r \in Requests : ReadDone(r)
    \/ \E r \in Requests : ReadFail(r)
    \/ \E r \in Requests : AbortHandler(r)
    \/ Unmount

SpecLifecycle == Init /\ [][NextLifecycle]_vars

\* The whole session: both entry points, the dismissal and the unmount
NextSession ==
    \/ \E content \in Contents, llm \in SessionLlm : sendMessage(content, llm)
    \/ \E recipeState \in RecipeStates, llm \in SessionLlm :
          sendRecipeImproveRequest(recipeState, llm)
    \/ clearMessages
    \/ \E r \in Requests : FetchResolve(r)
    \/ \E r \in Requests, message \in FetchErrors : FetchFail(r, message)
    \/ \E r \in Requests : \E n \in OneWrite(r) : ReadChunk(r, n)
    \/ \E r \in Requests : ReadDone(r)
    \/ \E r \in Requests : ReadFail(r)
    \/ \E r \in Requests : AbortHandler(r)
    \/ Unmount

SpecSession == Init /\ [][NextSession]_vars

-----------------------------------------------------------------------------
(* Properties *)

\* data.type of a dispatched line, "" when the line does not decode
EventType(line) ==
    LET data == IF StartsWith(line, DataPrefix)
                THEN ParseEvent(SubstringFrom(line, Len(DataPrefix))) ELSE None
    IN  IF IsSome(data) THEN Field(Val(data), "type", "") ELSE ""
\* the types of the events request r has applied so far, in order
AppliedTypes(r) == [i \in 1..Len(reqs[r].dispatched) |-> EventType(reqs[r].dispatched[i])]
Applied(r, eventType) == \E i \in 1..Len(reqs[r].dispatched) : AppliedTypes(r)[i] = eventType
\* request r is in flight between its RUN_STARTED and its first closing event
StreamingRun(r) ==
    /\ Active(r)
    /\ Applied(r, "RUN_STARTED")
    /\ \A e \in {"RUN_FINISHED", "RUN_ERROR", "DONE"} : ~Applied(r, e)
\* this step applies exactly one event of request r, of the given type
StepApplies(r, eventType) ==
    /\ Len(reqs'[r].dispatched) = Len(reqs[r].dispatched) + 1
    /\ EventType(reqs'[r].dispatched[Len(reqs'[r].dispatched)]) = eventType
\* the types of the events the server has written so far, in order
OutTypes == [i \in 1..Len(srv.out) |-> EventType(TrimEnd(srv.out[i]))]
Visible == <<messages, isStreaming, activeTool, error, metrics>>
OpenAssistant == {i \in 1..Len(messages) :
                    messages[i].role = "assistant" /\ ~messages[i].isComplete}

\* C1: a sendMessage with non-blank content that is called while a run is
\* streaming issues its request and aborts the request of the streaming run.
C1_CallWhileStreamingSupersedes ==
    (lastCall.op = "sendMessage" /\ ~lastCall.blank)
        => \A a \in Requests : StreamingRun(a) => lastCall.issued /\ reqs[a].aborted

\* request b was issued by the sendMessage that aborted request a
SupersededBy(a, b) ==
    /\ reqs[a].aborted
    /\ b > a
    /\ reqs[b].kind = "message"
    /\ \A c \in (a + 1)..(b - 1) : reqs[c].kind # "message"

\* C2: once the RUN_STARTED of the run that superseded it has been applied, a
\* request that a newer sendMessage aborted has nothing left to run (its handler
\* is done, no read is pending), and no step of it changes messages, isStreaming,
\* activeTool, error or metrics.
C2_SupersededStreamIsSilent ==
    [][\A a \in Requests :
          (\E b \in Requests : SupersededBy(a, b) /\ Applied(b, "RUN_STARTED"))
              => /\ ~Active(a)
                 /\ (reqs'[a] # reqs[a] => UNCHANGED Visible)]_vars
\* a stream that was aborted with frames left, and the newer run has started
C2_SupersededThenStarted ==
    \E a \in Requests, b \in Requests :
        /\ SupersededBy(a, b)
        /\ reqs[a].outcome = "aborted"
        /\ Len(reqs[a].dispatched) > 0
        /\ reqs[a].pos < Len(reqs[a].response)
        /\ Applied(b, "RUN_STARTED")

\* C3: at most one response stream is being read and dispatched at a time.
C3_OneStreamRead == Cardinality({r \in Requests : CanRead(r)}) <= 1

\* C4: whatever the split into chunks, when the stream closes the read loop has
\* dispatched, in arrival order, exactly the lines it dispatches when all the
\* delivered text arrives as one chunk and the rest is flushed at the close.
C4_SplitInvariance ==
    \A r \in Requests :
        reqs[r].outcome = "closed"
            => reqs[r].dispatched =
                  SelectSeq(Split(SubSeq(reqs[r].response, 1, reqs[r].pos), NL), TrimNonEmpty)
\* a stream closed after several dispatched lines with an unfinished line to flush
C4_FlushedAfterSplit ==
    \E r \in Requests :
        /\ reqs[r].outcome = "closed"
        /\ TrimNonEmpty(reqs[r].buffer)
        /\ Len(reqs[r].dispatched) >= 3

\* C5: the content of an open assistant message changes only by appending, or by
\* the clearing of the step that seals it with a component; the content of a
\* sealed message never changes.
C5_ContentAppendOnly ==
    [][\A i \in 1..Len(messages) :
          (messages[i].role = "assistant" /\ i <= Len(messages'))
              => IF messages[i].isComplete
                 THEN messages'[i].content = messages[i].content
                 ELSE \/ StartsWith(messages'[i].content, messages[i].content)
                      \/ /\ messages'[i].isComplete
                         /\ IsSome(messages'[i].component)
                         /\ messages'[i].content = <<>>]_vars

\* C6: at most one assistant message is open; stated for the sessions that only
\* call sendMessage, whose runs follow one another.
C6_OneOpenMessage ==
    (\A r \in Requests : reqs[r].kind = "message") => Cardinality(OpenAssistant) <= 1

\* C7: the server writes DONE only as the last event of a response, and every
\* response it has ended, on the success path or through the catch block, has
\* DONE as its last event.
C7_DoneIsLast ==
    /\ \A i \in 1..(Len(srv.out) - 1) : OutTypes[i] # "DONE"
    /\ srv.pc # "closed" => \A i \in 1..Len(srv.out) : OutTypes[i] # "DONE"
    /\ srv.pc = "closed" => Len(srv.out) >= 1 /\ OutTypes[Len(srv.out)] = "DONE"
\* a response that ended through the catch block after the LLM failed
C7_ErrorPathEnded ==
    /\ srv.pc = "closed"
    /\ srv.llmCalled
    /\ \E i \in 1..Len(srv.out) : OutTypes[i] = "RUN_ERROR"
    /\ OutTypes[Len(srv.out)] = "DONE"

KeywordOrder ==
    <<"RUN_STARTED", "TEXT_MESSAGE_START", "TEXT_MESSAGE_CONTENT", "TEXT_MESSAGE_END",
      "RUN_FINISHED", "DONE">>
IsSideEvent(eventType) == eventType \in {"UI_ACTION", "STATE_UPDATE"}

\* C8: a run of server.ts that answers from a keyword route writes RUN_STARTED,
\* TEXT_MESSAGE_START, TEXT_MESSAGE_CONTENT, TEXT_MESSAGE_END, RUN_FINISHED, DONE
\* in this order, and its UI_ACTION and STATE_UPDATE events lie after RUN_STARTED
\* and before RUN_FINISHED.
C8_KeywordEnvelope ==
    (srv.pc = "closed" /\ srv.handler = "server.ts" /\ srv.route \notin {"llm", "throw"})
        => /\ SelectSeq(OutTypes, LAMBDA e : ~IsSideEvent(e)) = KeywordOrder
           /\ \A i \in 1..Len(srv.out) :
                 IsSideEvent(OutTypes[i])
                    => /\ \E j \in 1..(i - 1) : OutTypes[j] = "RUN_STARTED"
                       /\ \E j \in (i + 1)..Len(srv.out) : OutTypes[j] = "RUN_FINISHED"
                       /\ \A j \in 1..(i - 1) : OutTypes[j] # "RUN_FINISHED"
\* the weather question answered, and a route that also writes a UI_ACTION
C8_KeywordRunEnded ==
    /\ srv.pc = "closed"
    /\ srv.handler = "server.ts"
    /\ \/ srv.body = Body(WeatherQuestion) /\ srv.route = "weather"
       \/ srv.route = "theme" /\ \E i \in 1..Len(srv.out) : OutTypes[i] = "UI_ACTION"

\* the predicates of the router, in the order the routes are tried
RouteOrder ==
    <<"improve", "execute", "planning", "weather", "time", "theme", "reset", "background",
      "greeting">>
RouteMatches(name, userInput) ==
    LET userLower == ToLowerCase(userInput)
    IN  CASE name = "improve" -> StartsWith(userInput, ImprovePrefix)
          [] name = "execute" -> StartsWith(userInput, ExecutePrefix)
          [] name = "planning" -> SomeIncluded(userLower, planningKeywords)
          [] name = "weather" -> SomeIncluded(userLower, weatherKeywords)
          [] name = "time" -> SomeIncluded(userLower, timeKeywords)
          [] name = "theme" -> SomeIncluded(userLower, themeKeywords)
          [] name = "reset" -> SomeIncluded(userLower, resetKeywords)
          [] name = "background" -> SomeIncluded(userLower, bgKeywords)
          [] name = "greeting" ->
                \/ Trim(userLower) \in greetings
                \/ StartsWith(userLower, <<Ch("hello"), COMMA>>)
                \/ StartsWith(userLower, <<Ch("hi"), COMMA>>)
FirstMatch(userInput) ==
    LET hits == {k \in 1..Len(RouteOrder) : RouteMatches(RouteOrder[k], userInput)}
    IN  IF hits = {} THEN "llm" ELSE RouteOrder[CHOOSE k \in hits : \A k2 \in hits : k <= k2]

\* C9: server.ts takes the route of the first predicate of the fixed order that
\* the user input matches, and calls the LLM exactly when none matches.
C9_FirstMatchWins ==
    (srv.pc # "idle" /\ srv.handler = "server.ts" /\ IsSome(srv.body.messages))
        => LET userInput == LastUserInput(Val(srv.body.messages))
           IN  /\ srv.route = FirstMatch(userInput)
               /\ srv.llmCalled <=> FirstMatch(userInput) = "llm"

\* the first colon after the COMPONENT: prefix
FirstColon(content) ==
    CHOOSE k \in (Len(ComponentPrefix) + 1)..Len(content) :
        /\ content[k] = COLON
        /\ \A j \in (Len(ComponentPrefix) + 1)..(k - 1) : content[j] # COLON
\* COMPONENT:<Type>:<JSON> with <JSON> valid
IsComponentText(content) ==
    /\ StartsWith(content, ComponentPrefix)
    /\ \E k \in (Len(ComponentPrefix) + 1)..Len(content) : content[k] = COLON
    /\ IsSome(JsonParse(SubSeq(content, FirstColon(content) + 1, Len(content))))
SealedWithComponent(m) ==
    [m EXCEPT !.content = <<>>,
              !.isComplete = TRUE,
              !.component =
                  Some([type |-> SubSeq(m.content, Len(ComponentPrefix) + 1,
                                        FirstColon(m.content) - 1),
                        data |-> Val(JsonParse(SubSeq(m.content, FirstColon(m.content) + 1,
                                                      Len(m.content))))])]
\* the weather question was the only request, and its whole stream was read
WeatherScenarioRead ==
    /\ Len(reqs) = 1
    /\ reqs[1].kind = "message"
    /\ messages[1].content = WeatherQuestion
    /\ reqs[1].outcome = "closed"
    /\ reqs[1].pos = Len(reqs[1].response)

\* C10: TEXT_MESSAGE_END applied to an open assistant message whose content is
\* COMPONENT:<Type>:<JSON> with valid JSON leaves it with content "", isComplete
\* true and component {type, data}, split at the first colon after the prefix;
\* and the weather scenario ends with exactly one assistant message, of content
\* "" and component type WeatherCard.
C10_ComponentExtraction ==
    /\ [][\A r \in Requests :
             LET idx == TargetIndex(messages)
             IN  (/\ StepApplies(r, "TEXT_MESSAGE_END")
                  /\ idx # 0
                  /\ ~messages[idx].isComplete
                  /\ IsComponentText(messages[idx].content))
                     => messages'[idx] = SealedWithComponent(messages[idx])]_vars
    /\ [](WeatherScenarioRead
            => /\ Len(messages) = 2
               /\ messages[2].role = "assistant"
               /\ messages[2].content = <<>>
               /\ messages[2].isComplete
               /\ IsSome(messages[2].component)
               /\ Val(messages[2].component).type = W("WeatherCard"))
\* the weather card, whose JSON holds colons, attached at the end of the scenario
C10_WeatherCardAttached ==
    /\ WeatherScenarioRead
    /\ IsSome(messages[2].component)
    /\ Val(messages[2].component).type = W("WeatherCard")
    /\ \E q \in Val(messages[2].component).data.pairs :
          q = <<Ch("location"), JStr(W("Mumbai"))>>

\* the event of a dispatched line that decodes
EventData(line) == Val(ParseEvent(SubstringFrom(line, Len(DataPrefix))))
\* the only request of the session has read the whole of a stream and was closed
StreamRead(stream) ==
    /\ Len(reqs) = 1
    /\ reqs[1].response = Flatten(stream)
    /\ reqs[1].pos = Len(reqs[1].response)
    /\ reqs[1].outcome = "closed"
\* request r goes on reading after the step
ReadsOn(r) == reqs'[r].pc = "read" /\ ~reqs'[r].aborted /\ component' = "mounted"

\* COMPONENT:<Type>:<JSON> whose <JSON>, the text after the first colon behind
\* the prefix, does not parse
IsMalformedComponentText(content) ==
    /\ StartsWith(content, ComponentPrefix)
    /\ \E k \in (Len(ComponentPrefix) + 1)..Len(content) : content[k] = COLON
    /\ ~IsSome(JsonParse(SubSeq(content, FirstColon(content) + 1, Len(content))))
BadComponentStream ==
    <<RunStartedFrame, TextStartFrame, ContentFrame(BadComponent), TextEndFrame,
      TextStartFrame, ContentFrame(W("tok")), TextEndFrame, RunFinishedFrame, DoneFrame>>

\* C11: TEXT_MESSAGE_END applied to an open assistant message whose content is
\* COMPONENT:<Type>: followed by text that is no JSON seals it (isComplete true)
\* with the same content and no component, and the read loop goes on: the frames
\* behind it are applied, whatever the chunks (the second message of the stream
\* is built and sealed, the run finishes).
C11_BadComponentSealsAsText ==
    /\ [][\A r \in Requests :
             LET idx == TargetIndex(messages)
             IN  (/\ StepApplies(r, "TEXT_MESSAGE_END")
                  /\ idx # 0
                  /\ ~messages[idx].isComplete
                  /\ IsMalformedComponentText(messages[idx].content))
                     => /\ messages' = [messages EXCEPT ![idx].isComplete = TRUE]
                        /\ ReadsOn(r)]_vars
    /\ [](StreamRead(BadComponentStream)
            => /\ Len(messages) = 3
               /\ messages[2] = [id |-> MessageId(1), role |-> "assistant",
                                 content |-> BadComponent, isComplete |-> TRUE,
                                 component |-> None]
               /\ messages[3].content = W("tok")
               /\ messages[3].isComplete
               /\ metrics.totalTokens = 2
               /\ ~isStreaming)
\* the stream with the malformed component text, read to its end
C11_BadComponentStreamRead ==
    /\ StreamRead(BadComponentStream)
    /\ messages[2].content = BadComponent
    /\ messages[2].isComplete
    /\ ~IsSome(messages[2].component)
    /\ Len(messages) = 3

\* a dispatched line that is no event, or a TOOL_CALL_ARGS event whose delta is
\* no JSON
IsUndecodable(line) ==
    \/ ~StartsWith(line, DataPrefix)
    \/ ~IsSome(ParseEvent(SubstringFrom(line, Len(DataPrefix))))
IsBadToolArgs(line) ==
    /\ EventType(line) = "TOOL_CALL_ARGS"
    /\ ~IsSome(JsonParse(Field(EventData(line), "delta", <<LBRACE, RBRACE>>)))
\* this step dispatches exactly one line of request r, and it is one of those
StepSkips(r) ==
    /\ Len(reqs'[r].dispatched) = Len(reqs[r].dispatched) + 1
    /\ LET line == reqs'[r].dispatched[Len(reqs'[r].dispatched)]
       IN  IsUndecodable(line) \/ IsBadToolArgs(line)

\* C12: a step that dispatches one line without the `data: ` prefix, one line of
\* malformed JSON, or one TOOL_CALL_ARGS frame whose delta is no JSON, changes
\* nothing of the hook's state, and the request goes on reading its stream.
C12_BadFrameIsSkipped ==
    [][\A r \in Requests : StepSkips(r) => UNCHANGED hookVars /\ ReadsOn(r)]_vars

AgentErrorStream ==
    <<RunStartedFrame, TextStartFrame, ContentFrame(W("tok")), RunErrorFrame, DoneFrame>>

\* C13: a step that applies RUN_ERROR leaves isStreaming false, error equal to
\* the message of the event and messages as it was; after the stream "start,
\* content, RUN_ERROR", whatever the chunks, the open assistant message still
\* holds the content it had received.
C13_RunErrorKeepsMessages ==
    /\ [][\A r \in Requests :
             StepApplies(r, "RUN_ERROR")
                => /\ ~isStreaming'
                   /\ error' = Some(EventData(reqs'[r].dispatched[Len(reqs'[r].dispatched)]).message)
                   /\ messages' = messages]_vars
    /\ [](StreamRead(AgentErrorStream)
            => /\ Len(messages) = 2
               /\ messages[2].content = W("tok")
               /\ ~messages[2].isComplete
               /\ error = Some("agent failed")
               /\ ~isStreaming)
\* the run error applied while the assistant message was open with content
C13_RunErrorOnPartialMessage ==
    /\ Len(reqs) = 1
    /\ Applied(1, "RUN_ERROR")
    /\ Len(messages) = 2
    /\ messages[2].content = W("tok")
    /\ ~messages[2].isComplete
    /\ error = Some("agent failed")

\* the step in which request r ends in its catch block on a failure of the
\* transport
StepFails(r) == reqs[r].outcome # "failed" /\ reqs'[r].outcome = "failed"

\* C14: when a request of sendMessage or of sendRecipeImproveRequest ends on a
\* failure of the transport (fetch rejects, status not OK, no body, a read
\* rejects), the step leaves isStreaming false and error holding the message of
\* the failure, RUN_STARTED applied before or not.
C14_TransportFailureStopsStreaming ==
    [][\A r \in Requests :
          StepFails(r)
             => /\ ~isStreaming'
                /\ error' \in {Some(message) : message \in FetchErrors \cup {"network error"}}]_vars

\* the step in which request r ends in its catch block on the AbortError
StepAborts(r) == reqs[r].outcome # "aborted" /\ reqs'[r].outcome = "aborted"

\* C15: the step in which an aborted request ends, after a newer sendMessage or
\* the unmount aborted it, leaves error and isConnected as they were and changes
\* nothing else than isStreaming, which it leaves false (or untouched once the
\* component is gone).
C15_AbortIsSilent ==
    [][\A r \in Requests :
          StepAborts(r)
             => /\ error' = error
                /\ isConnected' = isConnected
                /\ UNCHANGED <<messages, activeTool, metrics, isImprovingRecipe>>
                /\ \/ ~isStreaming'
                   \/ component # "mounted" /\ isStreaming' = isStreaming]_vars
\* one request aborted by the sendMessage that followed it, the next one aborted
\* by the unmount while its run was streaming
C15_SupersededAndTornDown ==
    /\ Len(reqs) = 2
    /\ reqs[1].outcome = "aborted"
    /\ reqs[2].outcome = "aborted"
    /\ Applied(2, "RUN_STARTED")
    /\ reqs[2].pos < Len(reqs[2].response)
    /\ component = "unmounted"
    /\ error = None
    /\ isConnected

\* a tool call sits in the slot with status running
ToolRunning == IsSome(activeTool) /\ Val(activeTool).status = "running"

\* C16: whenever a tool call is in the active slot with status running, it later
\* has another status or has left the slot (or the component is gone), also when
\* the run ends with RUN_ERROR or the stream ends without TOOL_CALL_END.
C16_ToolCallTerminates == ToolRunning ~> (~ToolRunning \/ component # "mounted")

\* the types of the events request r has applied since its last RUN_STARTED
SinceStart(r) ==
    LET ts == AppliedTypes(r)
        starts == {i \in 1..Len(ts) : ts[i] = "RUN_STARTED"}
    IN  IF starts = {} THEN <<>>
        ELSE SubSeq(ts, (CHOOSE i \in starts : \A j \in starts : j <= i) + 1, Len(ts))
ContentCount(r) == Len(SelectSeq(SinceStart(r), LAMBDA e : e = "TEXT_MESSAGE_CONTENT"))
\* the types of the events request r applies in this step
StepTypes(r) ==
    [i \in 1..(Len(reqs'[r].dispatched) - Len(reqs[r].dispatched)) |->
        EventType(reqs'[r].dispatched[Len(reqs[r].dispatched) + i])]

\* C17: once a run has applied a TEXT_MESSAGE_CONTENT after its RUN_STARTED, a
\* step that applies further events of that run, none of them a RUN_STARTED,
\* leaves the visible ttft as it is, however many content events the chunk holds.
C17_TtftSetOnce ==
    [][\A r \in Requests :
          (/\ Len(StepTypes(r)) >= 1
           /\ ContentCount(r) >= 1
           /\ \A i \in 1..Len(StepTypes(r)) : StepTypes(r)[i] # "RUN_STARTED")
              => metrics'.ttft = metrics.ttft]_vars

\* C18: a step that applies one TEXT_MESSAGE_CONTENT adds one to the token
\* counter, a step that applies one event of another kind leaves it (RUN_STARTED
\* resets it), and the step that applies the RUN_FINISHED of a run leaves
\* totalTokens equal to the number of TEXT_MESSAGE_CONTENT events the run has
\* applied since its RUN_STARTED.
C18_TokensCountContentEvents ==
    [][\A r \in Requests :
          /\ StepApplies(r, "TEXT_MESSAGE_CONTENT") => tokenCountRef' = tokenCountRef + 1
          /\ (/\ Len(StepTypes(r)) = 1
              /\ StepTypes(r)[1] \notin {"TEXT_MESSAGE_CONTENT", "RUN_STARTED"})
                => tokenCountRef' = tokenCountRef
          /\ (StepApplies(r, "RUN_FINISHED") /\ Applied(r, "RUN_STARTED"))
                => metrics'.totalTokens = ContentCount(r)]_vars

DoneEvent == SseEvent("DONE", <<>>)
ToolCallStream ==
    <<RunStartedFrame, ToolStartFrame, ToolArgsFrame(GoodArgs), ToolEndFrame,
      RunFinishedFrame, DoneFrame, DoneFrame>>

C20_EventsCarryRunId ==
    \A i \in 1..Len(srv.out) :
        LET event == EventData(TrimEnd(srv.out[i]))
        IN  /\ "timestamp" \in DOMAIN event
            /\ "runId" \in DOMAIN event \/ "threadId" \in DOMAIN event

\* what JSON.parse gives back for a value: a string as it is, an object as the
\* pairs of its defined fields
AsParsed(v) ==
    IF v = Undefined THEN Undefined
    ELSE IF "text" \in DOMAIN v THEN v
    ELSE [members |-> {<<<<Ch(f)>>, v.fields[f]>> :
                          f \in {g \in DOMAIN v.fields : v.fields[g] # Undefined}}]

\* C21: the text sendSSE writes for an event of a defined kind is one line that
\* holds no line break, followed by an empty line; the client dispatches that
\* one line, and decoding it gives the type of the event and, for every field
\* of the kind, the value that was encoded (undefined for a field that was
\* undefined or absent).
C21_RoundTrip ==
    /\ wire.pc # "idle"
          => LET lines == Split(wire.text, NL)
             IN  /\ Len(lines) = 3
                 /\ StartsWith(lines[1], DataPrefix)
                 /\ lines[2] = <<>> /\ lines[3] = <<>>
    /\ wire.pc = "decoded"
          => /\ Len(wire.decoded) = 1
             /\ IsSome(wire.decoded[1])
             /\ Member(Val(wire.decoded[1]), "type") = Text(<<Ch(wire.eventType)>>)
             /\ \A f \in DOMAIN wire.data :
                   Member(Val(wire.decoded[1]), f) = AsParsed(wire.data[f])
\* a content event whose delta holds a line break and a quote, decoded
C21_SpecialCharactersDecoded ==
    /\ wire.pc = "decoded"
    /\ wire.eventType = "TEXT_MESSAGE_CONTENT"
    /\ wire.data.delta = Text(<<NL, QUOTE>>)
    /\ Len(wire.decoded) = 1
    /\ IsSome(wire.decoded[1])
    /\ Member(Val(wire.decoded[1]), "delta") = Text(<<NL, QUOTE>>)

\* the event of the one line request r dispatches in this step
StepEvent(r) == EventData(reqs'[r].dispatched[Len(reqs'[r].dispatched)])

\* C22: a step that applies RUN_ERROR while a tool call is in the active slot
\* with status running leaves that call in the slot with status error.
C22_RunErrorFailsTool ==
    [][\A r \in Requests :
          (StepApplies(r, "RUN_ERROR") /\ ToolRunning /\ component = "mounted")
             => /\ IsSome(activeTool')
                /\ Val(activeTool').status = "error"]_vars

\* C23: a step that applies TOOL_CALL_END to an active tool call leaves it in
\* the slot with status complete and with the result of the event (none when
\* the event carries none).
C23_ToolEndAttachesResult ==
    [][\A r \in Requests :
          (StepApplies(r, "TOOL_CALL_END") /\ IsSome(activeTool) /\ component = "mounted")
             => /\ IsSome(activeTool')
                /\ Val(activeTool').status = "complete"
                /\ Val(activeTool').result =
                      (IF "result" \in DOMAIN StepEvent(r) THEN Some(StepEvent(r).result)
                       ELSE None)]_vars

\* C24: from the RUN_STARTED of the newest request to the first
\* TEXT_MESSAGE_CONTENT of that run, the visible metrics show ttft null and a
\* token count of 0, whatever the run before left behind.
C24_RunStartResetsMetrics ==
    \A r \in Requests :
        (/\ r = Len(reqs)
         /\ component = "mounted"
         /\ Applied(r, "RUN_STARTED")
         /\ ContentCount(r) = 0)
            => /\ metrics.ttft = None
               /\ metrics.totalTokens = 0

\* the message a content event of the given messageId is to work on: the open
\* assistant message of that id, else the last open assistant message, 0 when
\* no assistant message is open
ContentTarget(id) ==
    LET same == {i \in OpenAssistant : messages[i].id = id}
        among == IF same # {} THEN same ELSE OpenAssistant
    IN  IF among = {} THEN 0 ELSE CHOOSE i \in among : \A j \in among : j <= i

\* C25: a step that applies one TEXT_MESSAGE_CONTENT appends its delta to the
\* open assistant message whose id is the messageId of the event, or to the
\* last open assistant message when none has that id, and leaves every other
\* message as it is.
C25_ContentGoesToItsMessage ==
    [][\A r \in Requests :
          (StepApplies(r, "TEXT_MESSAGE_CONTENT") /\ component = "mounted")
             => LET idx == ContentTarget(Field(StepEvent(r), "messageId", <<>>))
                IN  messages' =
                       IF idx = 0 THEN messages
                       ELSE [messages EXCEPT
                                ![idx].content = @ \o Field(StepEvent(r), "delta", <<>>)]]_vars

\* no request applies an event in this step
NoEventApplied == \A r \in Requests : reqs'[r].dispatched = reqs[r].dispatched
\* the delay of the timer that the newest TOOL_CALL_END has set has not passed
InGracePeriod == timers # <<>> /\ now < timers[Len(timers)]
\* a TOOL_CALL_END has been applied and its timer has not fired
ClearPending == timers # <<>>

\* C26: while the grace period of the newest TOOL_CALL_END runs, the slot goes
\* on showing the call with status complete: a step that applies no event
\* leaves it there.
C26_CompleteShownForGracePeriod ==
    [][(/\ component = "mounted"
        /\ IsSome(activeTool)
        /\ Val(activeTool).status = "complete"
        /\ InGracePeriod
        /\ NoEventApplied)
           => activeTool' = activeTool]_vars
\* the other half of C26: a pending clearing leads to an empty slot (or the
\* component is gone)
C26_ClearedAfterGracePeriod ==
    (ClearPending /\ IsSome(activeTool)) ~> (activeTool = None \/ component # "mounted")

\* C27: a tool call that is in the slot with status running stays there with
\* status running through every step that applies no event, the firing of the
\* timer of an earlier TOOL_CALL_END included.
C27_TimerSparesNewCall ==
    [][(component = "mounted" /\ ToolRunning /\ NoEventApplied) => ToolRunning']_vars

\* C28: when every request of the session has ended (its stream closed, failed
\* or aborted), isStreaming is false, also when a stream delivered RUN_STARTED
\* and was closed without RUN_FINISHED, RUN_ERROR or DONE.
C28_EndedStreamStopsStreaming ==
    (/\ component = "mounted"
     /\ reqs # <<>>
     /\ \A r \in Requests : ~Active(r))
        => ~isStreaming

\* C29: once the component is gone, every request that was in flight has been
\* aborted, whichever entry point started it, and no step applies an event.
C29_TeardownStopsDispatch ==
    [][component # "mounted"
          => /\ \A r \in Requests : Active(r) => reqs[r].aborted
             /\ NoEventApplied]_vars

\* this step is a send that passed its guard, or a clearMessages
StepSendsOrClears == lastCall'.issued \/ lastCall'.op = "clearMessages"
\* this step applies a RUN_ERROR
StepAppliesRunError ==
    \E r \in Requests : \E i \in 1..Len(StepTypes(r)) : StepTypes(r)[i] = "RUN_ERROR"

\* C30 as stated: an error that is set changes only in a step that is a send
\* passing its guard, a clearMessages, or the application of a RUN_ERROR.
C30_ErrorKeptUntilSendOrClear ==
    [][(IsSome(error) /\ error' # error) => StepSendsOrClears \/ StepAppliesRunError]_vars

\* C30, amended: an error that is set changes only in a step that is a send
\* passing its guard, a clearMessages, the application of a RUN_ERROR, or the
\* failure of the transport of a request, which stores its own message; a step
\* that applies RUN_STARTED, RUN_FINISHED, DONE or any other event than RUN_ERROR
\* leaves error as it is, set or not.
C30_ErrorKeptUntilSendClearOrNewError ==
    [][/\ (IsSome(error) /\ error' # error)
            => \/ StepSendsOrClears
               \/ StepAppliesRunError
               \/ \E r \in Requests : StepFails(r)
       /\ \A r \in Requests :
             (Len(StepTypes(r)) >= 1 /\ ~StepAppliesRunError) => error' = error]_vars
\* the error of a RUN_ERROR still shown after the DONE behind it was applied and
\* the stream was closed
C30_ErrorOutlivedDone ==
    /\ error = Some("LLM request failed")
    /\ \E r \in Requests :
          /\ reqs[r].outcome = "closed"
          /\ Applied(r, "RUN_ERROR")
          /\ AppliedTypes(r)[Len(reqs[r].dispatched)] = "DONE"

\* the kinds processSSELine has a case for
HandledKinds ==
    {"RUN_STARTED", "TEXT_MESSAGE_START", "TEXT_MESSAGE_CONTENT", "TEXT_MESSAGE_END",
     "TOOL_CALL_START", "TOOL_CALL_ARGS", "TOOL_CALL_END", "STATE_UPDATE", "UI_ACTION",
     "FRONTEND_ACTION", "RUN_FINISHED", "RUN_ERROR", "DONE"}
\* a dispatched line that decodes to an event of another kind, or of no kind
IsUnhandledKind(line) == ~IsUndecodable(line) /\ EventType(line) \notin HandledKinds
\* this step dispatches lines of request r, all of them events of unhandled kinds
StepAppliesUnhandledOnly(r) ==
    /\ Len(reqs'[r].dispatched) > Len(reqs[r].dispatched)
    /\ \A i \in (Len(reqs[r].dispatched) + 1)..Len(reqs'[r].dispatched) :
          IsUnhandledKind(reqs'[r].dispatched[i])

\* C31: a step that dispatches only events whose type is none of the handled
\* kinds changes nothing of the hook's state (messages, isStreaming, activeTool,
\* error, metrics, the run counters, the timers) and calls no UI handler; a
\* stream with such events between its known ones leaves the state that the
\* known events alone produce.
C31_UnknownKindIsNoOp ==
    /\ [][\A r \in Requests :
             StepAppliesUnhandledOnly(r) => UNCHANGED hookVars /\ ReadsOn(r)]_vars
    /\ [](StreamRead(UnknownKindsStream)
            => /\ Len(messages) = 2
               /\ messages[2] = [id |-> MessageId(1), role |-> "assistant",
                                 content |-> W("tok"), isComplete |-> TRUE,
                                 component |-> None]
               /\ metrics.totalTokens = 1
               /\ uiCalls = <<>>
               /\ ~IsSome(error)
               /\ ~isStreaming
               /\ IsSome(activeTool) => Val(activeTool).id = Some(ToolCallId(1)))
\* the stream with the unknown kinds was read to its end
C31_UnknownKindsStreamRead ==
    /\ StreamRead(UnknownKindsStream)
    /\ \E i \in 1..Len(reqs[1].dispatched) : IsUnhandledKind(reqs[1].dispatched[i])
    /\ Len(messages) = 2
    /\ messages[2].isComplete

\* the toolCallId of the i-th event the server has written
OutToolCallId(i) == Field(EventData(TrimEnd(srv.out[i])), "toolCallId", None)

\* C32: every TOOL_CALL_END the server has written carries the toolCallId of a
\* TOOL_CALL_START written before it in the same run.
C32_ToolEndMatchesStart ==
    \A i \in 1..Len(srv.out) :
        OutTypes[i] = "TOOL_CALL_END"
           => \E j \in 1..(i - 1) : /\ OutTypes[j] = "TOOL_CALL_START"
                                    /\ OutToolCallId(j) = OutToolCallId(i)

\* where the server side has written events of the given type
OutAt(eventType) == {i \in 1..Len(srv.out) : OutTypes[i] = eventType}

\* C33: a run of processMessage emits at most one TEXT_MESSAGE_START, and once
\* it has emitted RUN_FINISHED exactly one TEXT_MESSAGE_END stands between that
\* start and the RUN_FINISHED, for every input, an EXECUTE_PLAN: command without
\* a ':[' step list included.
C33_OneMessagePerRun ==
    srv.handler = "adapter.ts"
       => /\ Cardinality(OutAt("TEXT_MESSAGE_START")) <= 1
          /\ \A f \in OutAt("RUN_FINISHED") :
                /\ Cardinality(OutAt("TEXT_MESSAGE_START")) = 1
                /\ Cardinality(OutAt("TEXT_MESSAGE_END")) = 1
                /\ \A b \in OutAt("TEXT_MESSAGE_START"), e \in OutAt("TEXT_MESSAGE_END") :
                      b < e /\ e < f

\* where the run was declared over
OutEnds == OutAt("RUN_FINISHED") \cup OutAt("RUN_ERROR")
MessageAndToolKinds ==
    {"TEXT_MESSAGE_START", "TEXT_MESSAGE_CONTENT", "TEXT_MESSAGE_END",
     "TOOL_CALL_START", "TOOL_CALL_ARGS", "TOOL_CALL_END"}

\* C34: the first event of a run is its only RUN_STARTED; a run emits at most
\* one of RUN_FINISHED and RUN_ERROR, and exactly one once the handler is
\* through; RUN_FINISHED comes after a TEXT_MESSAGE_END; behind RUN_FINISHED or
\* RUN_ERROR no TEXT_MESSAGE_* and no TOOL_CALL_* event is emitted.  For the
\* handlers of POST /api/copilotkit and for processMessage of the adapter.
C34_RunEnvelope ==
    /\ srv.out # <<>> => OutAt("RUN_STARTED") = {1}
    /\ Cardinality(OutEnds) <= 1
    /\ srv.pc = "closed" => Cardinality(OutEnds) = 1
    /\ \A f \in OutAt("RUN_FINISHED") : \E e \in OutAt("TEXT_MESSAGE_END") : e < f
    /\ \A k \in OutEnds : \A i \in (k + 1)..Len(srv.out) :
          OutTypes[i] \notin MessageAndToolKinds
\* a run of the adapter that failed in the middle of its text stream
C34_AdapterFailedMidStream ==
    /\ srv.handler = "adapter.ts"
    /\ srv.pc = "closed"
    /\ OutAt("TEXT_MESSAGE_CONTENT") # {}
    /\ OutAt("RUN_ERROR") = {Len(srv.out)}

\* C35: a sendMessage call whose content is empty or white space only, or that
\* is made while isStreaming is true, changes nothing: no message is appended,
\* no request is issued, no request in flight is aborted, error stays as it is,
\* and so does every other state of the hook.
C35_GuardedSendChangesNothing ==
    [][(lastCall'.op = "sendMessage" /\ (lastCall'.blank \/ isStreaming))
          => /\ UNCHANGED <<hookVars, reqs>>
             /\ ~lastCall'.issued]_vars
\* a blank sendMessage was made while an error was shown and a request that the
\* controller could have aborted was in flight
C35_BlankSendWithErrorInFlight ==
    /\ lastCall.op = "sendMessage"
    /\ lastCall.blank
    /\ IsSome(error)
    /\ IsSome(abortControllerRef)
    /\ Active(Val(abortControllerRef))
    /\ ~reqs[Val(abortControllerRef)].aborted

\* the last entry of the conversation list is a user message, or there is none
LastIsNoAssistant == messages = <<>> \/ messages[Len(messages)].role # "assistant"

\* C36: no step that applies stream events changes a user message; a step that
\* applies one TEXT_MESSAGE_CONTENT or one TEXT_MESSAGE_END leaves every entry
\* but the last as it is, and the whole list when the last entry is a user
\* message: the delta is discarded and nothing is sealed.
C36_UserMessagesUntouched ==
    /\ [][\A r \in Requests :
             Len(StepTypes(r)) >= 1
                => \A i \in 1..Len(messages) :
                      messages[i].role = "user"
                         => i <= Len(messages') /\ messages'[i] = messages[i]]_vars
    /\ [][\A r \in Requests :
             (StepApplies(r, "TEXT_MESSAGE_CONTENT") \/ StepApplies(r, "TEXT_MESSAGE_END"))
                => /\ Len(messages') = Len(messages)
                   /\ \A i \in 1..(Len(messages) - 1) : messages'[i] = messages[i]
                   /\ LastIsNoAssistant => messages' = messages]_vars
\* a content and an end event were applied while the user message was the last
\* entry, and it is still the only one
C36_DeltaDiscarded ==
    /\ Len(reqs) = 1
    /\ reqs[1].response = Flatten(OrphanContentStream)
    /\ AppliedTypes(1) = <<"RUN_STARTED", "TEXT_MESSAGE_CONTENT", "TEXT_MESSAGE_END">>
    /\ Len(messages) = 1
    /\ messages[1].role = "user"
    /\ tokenCountRef = 1

\* what STATE_UPDATE and UI_ACTION must leave alone
SideEventFrame == <<messages, isStreaming, activeTool, error, metrics, tokenCountRef>>
\* the handler names executeUIAction knows an action by
ActionHandlers(action) ==
    CASE action \in {"changeBackgroundColor", "change_background_color"} ->
            {"changeBackgroundColor"}
      [] action \in {"changeTheme", "change_theme"} -> {"changeTheme"}
      [] action \in {"showNotification", "show_notification"} -> {"showNotification"}
      [] action \in {"resetUI", "reset_ui"} -> {"resetUI"}
      [] OTHER -> {}

\* C37: a step that applies one STATE_UPDATE or one UI_ACTION leaves messages,
\* isStreaming, activeTool, error, metrics and the token counter unchanged.
\* STATE_UPDATE calls updateRecipeState once, with the whole state of the event,
\* when that handler is registered and the event has a state, and calls nothing
\* otherwise.  UI_ACTION calls at most one handler, a registered one that the
\* action names, and only when the event has both action and args.
C37_SideEventsOnlyCallHandlers ==
    [][\A r \in Requests :
          /\ StepApplies(r, "STATE_UPDATE")
                => /\ UNCHANGED SideEventFrame
                   /\ uiCalls' =
                         IF "updateRecipeState" \in uiActionsRef
                               /\ "state" \in DOMAIN StepEvent(r)
                         THEN Append(uiCalls, <<"updateRecipeState",
                                                Some(StepEvent(r).state)>>)
                         ELSE uiCalls
          /\ StepApplies(r, "UI_ACTION")
                => /\ UNCHANGED SideEventFrame
                   /\ \/ uiCalls' = uiCalls
                      \/ /\ Len(uiCalls') = Len(uiCalls) + 1
                         /\ SubSeq(uiCalls', 1, Len(uiCalls)) = uiCalls
                         /\ {"action", "args"} \subseteq DOMAIN StepEvent(r)
                         /\ uiCalls'[Len(uiCalls')][1] \in uiActionsRef
                         /\ uiCalls'[Len(uiCalls')][1]
                               \in ActionHandlers(StepEvent(r).action)]_vars
\* both states of the stream were handed to the recipe handler, the second
\* last, with a message and a tool call open in between
C37_StatePassedTwice ==
    /\ StreamRead(StateEventsStream)
    /\ Len(uiCalls) >= 2
    /\ uiCalls[Len(uiCalls)] = <<"updateRecipeState", Some(W("second"))>>
    /\ uiCalls[Len(uiCalls) - 1] = <<"updateRecipeState", Some(W("first"))>>

\* field f of the event, none when the event does not carry it
Carried(data, f) == IF f \in DOMAIN data THEN Some(data[f]) ELSE None

\* C38: a step that applies TOOL_CALL_START while a tool call is in the active
\* slot leaves in the slot the call of the event alone: its id, its name, its
\* args (none when the event carries none), no result, status running.
C38_SecondStartReplacesSlot ==
    [][\A r \in Requests :
          (StepApplies(r, "TOOL_CALL_START") /\ IsSome(activeTool) /\ component = "mounted")
             => /\ IsSome(activeTool')
                /\ Val(activeTool').id = Carried(StepEvent(r), "toolCallId")
                /\ Val(activeTool').name = StepEvent(r).toolName
                /\ Val(activeTool').args = Carried(StepEvent(r), "args")
                /\ Val(activeTool').result = None
                /\ Val(activeTool').status = "running"]_vars
\* the second call has taken the slot of the first, which was running with
\* args, and has ended; the args of the first are gone
C38_FirstCallOverwritten ==
    /\ StreamRead(OverlappingToolsStream)
    /\ IsSome(activeTool)
    /\ Val(activeTool).id = Some(ToolCallId(2))
    /\ Val(activeTool).name = "showNotification"
    /\ Val(activeTool).args = None
    /\ Val(activeTool).status = "complete"

\* JSON.parse of the delta of an event, of '{}' when it carries none
Snapshot(data) ==
    JsonParse(IF Field(data, "delta", <<>>) = <<>> THEN <<LBRACE, RBRACE>>
              ELSE data.delta)

\* C39: a step that applies TOOL_CALL_ARGS whose delta parses, while a tool
\* call is in the active slot, leaves that call in the slot with the parsed
\* delta as its args, nothing of the earlier args, and the same id, name, result
\* and status; a step that applies TOOL_CALL_ARGS while the slot is empty leaves
\* it empty, whatever the delta, and the component mounted.
C39_ArgsSnapshotReplaces ==
    [][\A r \in Requests :
          (StepApplies(r, "TOOL_CALL_ARGS") /\ component = "mounted")
             => /\ (IsSome(activeTool) /\ IsSome(Snapshot(StepEvent(r))))
                      => activeTool' = Some([Val(activeTool) EXCEPT
                                               !.args = Snapshot(StepEvent(r))])
                /\ ~IsSome(activeTool)
                      => activeTool' = None /\ component' = "mounted"]_vars
\* the call holds the second snapshot alone: the key of the first is gone
C39_SecondSnapshotAlone ==
    /\ StreamRead(ArgsSnapshotsStream)
    /\ IsSome(activeTool)
    /\ Val(activeTool).id = Some(ToolCallId(1))
    /\ Val(activeTool).name = "changeTheme"
    /\ Val(activeTool).status = "complete"
    /\ IsSome(Val(activeTool).args)
    /\ Arg(Val(Val(activeTool).args), "message") = Some(Ch("hi"))
    /\ Arg(Val(Val(activeTool).args), "theme") = None

====
